---- MODULE Spec2Model ----
(***************************************************************************)
(* Model of the parse-syllabus edge function                                *)
(* (PARSE_SYLLABUS_FUNCTION_CODE.ts): the request handler that turns the    *)
(* AI-extracted schedule and the AI planner's sessions into study_blocks    *)
(* rows.  The handler is a sequential state machine whose steps are the     *)
(* stretches of code between two awaits.                                    *)
(*                                                                         *)
(* Conventions.                                                             *)
(*  - A JavaScript number is a record [k, v]: k = "fin" with the integer v,  *)
(*    or k = "nan" / "inf" / "ninf"; k = "undef" is the value undefined of a *)
(*    missing property.  Strings are TLA+ strings.                          *)
(*  - A string property that is missing is modelled by the empty string:    *)
(*    the handler only ever tests these properties for truthiness, and      *)
(*    undefined, null and "" are all falsy.                                 *)
(*  - The edge runtime runs in UTC, so the local calendar fields of a Date   *)
(*    (getDay, getDate, setDate, new Date(y, m, d)) are its UTC fields and a *)
(*    Date at midnight is a whole number of days since 1970-01-01; the time  *)
(*    value of a Date is kept in days.                                      *)
(***************************************************************************)
EXTENDS Integers, Sequences, FiniteSets, TLC

(***************************************************************************)
(* JavaScript numbers                                                      *)
(***************************************************************************)
Num(v) == [k |-> "fin", v |-> v]
NaN == [k |-> "nan", v |-> 0]
Infinity == [k |-> "inf", v |-> 0]
NegInfinity == [k |-> "ninf", v |-> 0]
Undefined == [k |-> "undef", v |-> 0]

\* ToNumber applied to an already-converted value: undefined becomes NaN.
ToNumber(a) == IF a.k = "undef" THEN NaN ELSE a

isNaN(a) == ToNumber(a).k = "nan"

JsNeg(a) ==
  LET x == ToNumber(a) IN
  CASE x.k = "fin" -> Num(0 - x.v)
    [] x.k = "inf" -> NegInfinity
    [] x.k = "ninf" -> Infinity
    [] OTHER -> NaN

JsAdd(a, b) ==
  LET x == ToNumber(a)
      y == ToNumber(b) IN
  CASE x.k = "nan" \/ y.k = "nan" -> NaN
    [] x.k = "fin" /\ y.k = "fin" -> Num(x.v + y.v)
    [] x.k = "fin" -> y
    [] y.k = "fin" -> x
    [] x.k = y.k -> x
    [] OTHER -> NaN

JsSub(a, b) == JsAdd(a, JsNeg(b))

JsSign(x) ==
  CASE x.k = "inf" -> 1
    [] x.k = "ninf" -> -1
    [] x.v > 0 -> 1
    [] x.v < 0 -> -1
    [] OTHER -> 0

JsMul(a, b) ==
  LET x == ToNumber(a)
      y == ToNumber(b) IN
  CASE x.k = "nan" \/ y.k = "nan" -> NaN
    [] x.k = "fin" /\ y.k = "fin" -> Num(x.v * y.v)
    [] JsSign(x) * JsSign(y) > 0 -> Infinity
    [] JsSign(x) * JsSign(y) < 0 -> NegInfinity
    [] OTHER -> NaN

\* a < b; every comparison with NaN is false.
JsLt(a, b) ==
  LET x == ToNumber(a)
      y == ToNumber(b) IN
  CASE x.k = "nan" \/ y.k = "nan" -> FALSE
    [] x.k = "fin" /\ y.k = "fin" -> x.v < y.v
    [] x.k = "ninf" -> y.k # "ninf"
    [] y.k = "inf" -> x.k # "inf"
    [] OTHER -> FALSE

JsGt(a, b) == JsLt(b, a)

\* a <= b
JsLe(a, b) ==
  LET x == ToNumber(a)
      y == ToNumber(b) IN
  /\ x.k # "nan"
  /\ y.k # "nan"
  /\ ~JsLt(y, x)

(***************************************************************************)
(* JavaScript strings                                                      *)
(***************************************************************************)
CharAt(s, i) == SubSeq(s, i, i)

\* String.prototype.substring(0, n)
substring(s, n) == IF Len(s) <= n THEN s ELSE SubSeq(s, 1, n)

RECURSIVE TrimStart(_)
TrimStart(s) ==
  IF Len(s) > 0 /\ CharAt(s, 1) = " " THEN TrimStart(SubSeq(s, 2, Len(s))) ELSE s

RECURSIVE TrimEnd(_)
TrimEnd(s) ==
  IF Len(s) > 0 /\ CharAt(s, Len(s)) = " "
  THEN TrimEnd(SubSeq(s, 1, Len(s) - 1))
  ELSE s

\* String.prototype.trim
trim(s) == TrimEnd(TrimStart(s))

\* Position of the first sep at or after i, 0 when there is none.
RECURSIVE IndexFrom(_, _, _)
IndexFrom(s, sep, i) ==
  IF i > Len(s) THEN 0
  ELSE IF CharAt(s, i) = sep THEN i
  ELSE IndexFrom(s, sep, i + 1)

\* String.prototype.split(sep) for a one-character separator.
RECURSIVE split(_, _)
split(s, sep) ==
  LET i == IndexFrom(s, sep, 1) IN
  IF i = 0 THEN <<s>>
  ELSE <<SubSeq(s, 1, i - 1)>> \o split(SubSeq(s, i + 1, Len(s)), sep)

Digits == <<"0", "1", "2", "3", "4", "5", "6", "7", "8", "9">>

IsDigit(c) == \E i \in 1..Len(Digits) : Digits[i] = c

DigitVal(c) == (CHOOSE i \in 1..Len(Digits) : Digits[i] = c) - 1

AllDigits(s) == Len(s) > 0 /\ \A i \in 1..Len(s) : IsDigit(CharAt(s, i))

RECURSIVE DigitsVal(_)
DigitsVal(s) ==
  IF Len(s) = 0 THEN 0
  ELSE 10 * DigitsVal(SubSeq(s, 1, Len(s) - 1)) + DigitVal(CharAt(s, Len(s)))

\* The unsigned part of a numeric string.
UnsignedToNumber(s) ==
  IF AllDigits(s) THEN Num(DigitsVal(s))
  ELSE IF s = "Infinity" THEN Infinity
  ELSE NaN

\* Number(string) for decimal integer literals and Infinity: surrounding
\* blanks are ignored, the empty string is 0, anything else is NaN.
\* (Fractions, exponents and radix prefixes are outside the modelled inputs.)
StringToNumber(str) ==
  LET s == trim(str) IN
  IF Len(s) = 0 THEN Num(0)
  ELSE IF CharAt(s, 1) = "-" THEN JsNeg(UnsignedToNumber(SubSeq(s, 2, Len(s))))
  ELSE IF CharAt(s, 1) = "+" THEN UnsignedToNumber(SubSeq(s, 2, Len(s)))
  ELSE UnsignedToNumber(s)

\* str.split(':').map(Number) followed by the destructuring [first, second]:
\* a missing element is undefined.
SplitTime(str) ==
  LET parts == split(str, ":") IN
  <<StringToNumber(parts[1]),
    IF Len(parts) >= 2 THEN StringToNumber(parts[2]) ELSE Undefined>>

(***************************************************************************)
(* Dates (UTC, whole days since 1970-01-01)                                *)
(***************************************************************************)
IsLeap(y) == (y % 4 = 0 /\ y % 100 # 0) \/ y % 400 = 0

DaysInMonth(y, m) ==
  CASE m = 2 -> IF IsLeap(y) THEN 29 ELSE 28
    [] m \in {4, 6, 9, 11} -> 30
    [] OTHER -> 31

\* Day number of the civil date y-m-d (m in 1..12).
DaysFromCivil(y, m, d) ==
  LET yy == IF m <= 2 THEN y - 1 ELSE y
      era == yy \div 400
      yoe == yy - era * 400
      mp == IF m > 2 THEN m - 3 ELSE m + 9
      doy == (153 * mp + 2) \div 5 + d - 1
      doe == yoe * 365 + yoe \div 4 - yoe \div 100 + doy
  IN era * 146097 + doe - 719468

\* Civil date of a day number.
CivilFromDays(n) ==
  LET z == n + 719468
      era == z \div 146097
      doe == z - era * 146097
      yoe == (doe - doe \div 1460 + doe \div 36524 - doe \div 146096) \div 365
      doy == doe - (365 * yoe + yoe \div 4 - yoe \div 100)
      mp == (5 * doy + 2) \div 153
      d == doy - (153 * mp + 2) \div 5 + 1
      m == IF mp < 10 THEN mp + 3 ELSE mp - 9
      y == yoe + era * 400 + (IF m <= 2 THEN 1 ELSE 0)
  IN [y |-> y, m |-> m, d |-> d]

\* new Date(string) for the date-only ISO form YYYY-MM-DD: midnight UTC of
\* that day; any other modelled string gives an Invalid Date (time value NaN).
ParseDate(s) ==
  IF /\ Len(s) = 10
     /\ CharAt(s, 5) = "-"
     /\ CharAt(s, 8) = "-"
     /\ AllDigits(SubSeq(s, 1, 4))
     /\ AllDigits(SubSeq(s, 6, 7))
     /\ AllDigits(SubSeq(s, 9, 10))
  THEN LET y == DigitsVal(SubSeq(s, 1, 4))
           m == DigitsVal(SubSeq(s, 6, 7))
           d == DigitsVal(SubSeq(s, 9, 10))
       IN IF m \in 1..12 /\ d >= 1 /\ d <= DaysInMonth(y, m)
          THEN Num(DaysFromCivil(y, m, d))
          ELSE NaN
  ELSE NaN

\* new Date(year, monthIndex, day): monthIndex counts from 0.
MakeDate(year, monthIndex, day) == Num(DaysFromCivil(year, monthIndex + 1, day))

\* Date.prototype.getDay: 0 = Sunday .. 6 = Saturday (1970-01-01 was a Thursday).
getDay(date) == (date.v + 4) % 7

Pad(n, width) ==
  LET ds == [i \in 1..width |-> Digits[((n \div (10 ^ (width - i))) % 10) + 1]]
  IN IF width = 2 THEN ds[1] \o ds[2] ELSE ds[1] \o ds[2] \o ds[3] \o ds[4]

\* date.toISOString().split('T')[0]
toISODate(date) ==
  LET c == CivilFromDays(date.v)
  IN Pad(c.y, 4) \o "-" \o Pad(c.m, 2) \o "-" \o Pad(c.d, 2)

(***************************************************************************)
(* Recurrence generator: lines 214-311 of the handler                      *)
(***************************************************************************)
\* The JSON null of an id column (identifiers are uuid strings, never this).
null == "null"

\* dayMap with the single letter S given to Sunday.
dayMap_SIsSunday ==
  [Monday |-> 1, Tuesday |-> 2, Wednesday |-> 3, Thursday |-> 4, Friday |-> 5,
   Saturday |-> 6, Sunday |-> 0,
   Mon |-> 1, Tue |-> 2, Wed |-> 3, Thu |-> 4, Fri |-> 5, Sat |-> 6, Sun |-> 0,
   M |-> 1, T |-> 2, W |-> 3, R |-> 4, F |-> 5, S |-> 0]

dayMap ==
  [Monday |-> 1, Tuesday |-> 2, Wednesday |-> 3, Thursday |-> 4, Friday |-> 5,
   Saturday |-> 6, Sunday |-> 0,
   Mon |-> 1, Tue |-> 2, Wed |-> 3, Thu |-> 4, Fri |-> 5, Sat |-> 6, Sun |-> 0,
   M |-> 1, T |-> 2, W |-> 3, R |-> 4, F |-> 5, S |-> 6]

\* dayMap[key]: undefined for a key the table does not have.
dayMapGet(key) == IF key \in DOMAIN dayMap THEN Num(dayMap[key]) ELSE Undefined

\* a ?? b
Coalesce(a, b) == IF a.k = "undef" THEN b ELSE a

\* ResolveDay falling back on the first letter instead of the first three.
ResolveDay_FirstLetter(day) ==
  LET dayName == trim(day)
  IN Coalesce(dayMapGet(dayName), dayMapGet(substring(dayName, 1)))

\* The callback of schedule.days.map: a weekday number, or undefined where
\* the source yields null (both are removed by the filter).
ResolveDay(day) ==
  LET dayName == trim(day)
  IN Coalesce(dayMapGet(dayName), dayMapGet(substring(dayName, 3)))

\* schedule.days.map(...).filter(d => d !== null)
scheduleDaysOf(days) ==
  SelectSeq([i \in 1..Len(days) |-> ResolveDay(days[i])], LAMBDA d : d.k # "undef")

\* Array.prototype.includes
includes(arr, e) == \E i \in 1..Len(arr) : arr[i] = e

MIN_DURATION == 15
MAX_DURATION == 4 * 60

\* ComputeDuration with the minimum and maximum applied before the rollover.
ComputeDuration_ClampBeforeRollover(startHour, startMin, endHour, endMin) ==
  LET raw == JsSub(JsAdd(JsMul(endHour, Num(60)), endMin),
                   JsAdd(JsMul(startHour, Num(60)), startMin))
      raised == IF JsLt(raw, Num(MIN_DURATION)) THEN Num(MIN_DURATION) ELSE raw
      capped == IF JsGt(raised, Num(MAX_DURATION)) THEN Num(MAX_DURATION) ELSE raised
  IN IF JsLt(raw, Num(0)) THEN JsAdd(capped, Num(24 * 60)) ELSE capped

\* Lines 261-282: difference, next-day rollover, minimum, maximum.
ComputeDuration(startHour, startMin, endHour, endMin) ==
  LET raw == JsSub(JsAdd(JsMul(endHour, Num(60)), endMin),
                   JsAdd(JsMul(startHour, Num(60)), startMin))
      rolled == IF JsLt(raw, Num(0)) THEN JsAdd(raw, Num(24 * 60)) ELSE raw
      raised == IF JsLt(rolled, Num(MIN_DURATION)) THEN Num(MIN_DURATION) ELSE rolled
  IN IF JsGt(raised, Num(MAX_DURATION)) THEN Num(MAX_DURATION) ELSE raised

\* VisitedDates with `currentDate < endDate` as the loop condition.
VisitedDates_StopBeforeEnd(startDate, endDate) ==
  IF JsLt(startDate, endDate)
  THEN [i \in 1..(endDate.v - startDate.v) |-> JsAdd(startDate, Num(i - 1))]
  ELSE <<>>

\* The values currentDate takes in `while (currentDate <= endDate)`: it starts
\* at startDate and setDate(getDate() + 1) moves it one day on after every
\* iteration.  No iteration when a bound is an Invalid Date (NaN <= x is false).
VisitedDates(startDate, endDate) ==
  IF JsLe(startDate, endDate)
  THEN [i \in 1..(endDate.v - startDate.v + 1) |-> JsAdd(startDate, Num(i - 1))]
  ELSE <<>>

\* OccurrenceLoop walking the range once for every entry of scheduleDays.
OccurrenceLoop_PerToken(startDate, endDate, scheduleDays, startTime, durationMinutes) ==
  LET ForDay(day) ==
        LET hits == SelectSeq(VisitedDates(startDate, endDate),
                              LAMBDA currentDate : Num(getDay(currentDate)) = day)
        IN [i \in 1..Len(hits) |->
              [blockDate |-> toISODate(hits[i]),
               startTime |-> startTime,
               durationMinutes |-> durationMinutes,
               isClassMeeting |-> TRUE]]
      upTo[j \in 0..Len(scheduleDays)] ==
        IF j = 0 THEN <<>> ELSE upTo[j - 1] \o ForDay(scheduleDays[j])
  IN upTo[Len(scheduleDays)]

\* OccurrenceLoop storing the start time cut to hh:mm.
OccurrenceLoop_ShortStartTime(startDate, endDate, scheduleDays, startTime, durationMinutes) ==
  LET hits == SelectSeq(VisitedDates(startDate, endDate),
                        LAMBDA currentDate :
                          includes(scheduleDays, Num(getDay(currentDate))))
  IN [i \in 1..Len(hits) |->
        [blockDate |-> toISODate(hits[i]),
         startTime |-> substring(startTime, 5),
         durationMinutes |-> durationMinutes,
         isClassMeeting |-> TRUE]]

\* Lines 294-306: one block pushed for every visited date whose getDay() is
\* among scheduleDays.
OccurrenceLoop(startDate, endDate, scheduleDays, startTime, durationMinutes) ==
  LET hits == SelectSeq(VisitedDates(startDate, endDate),
                        LAMBDA currentDate :
                          includes(scheduleDays, Num(getDay(currentDate))))
  IN [i \in 1..Len(hits) |->
        [blockDate |-> toISODate(hits[i]),
         startTime |-> startTime,
         durationMinutes |-> durationMinutes,
         isClassMeeting |-> TRUE]]

\* StartDateOf ignoring the schedule's startDate.
StartDateOf_AlwaysDefault(schedule, currentYear) == MakeDate(currentYear, 0, 15)

\* Lines 245-250: the range, each end defaulted from the current year.
StartDateOf(schedule, currentYear) ==
  IF schedule.startDate # "" THEN ParseDate(schedule.startDate)
  ELSE MakeDate(currentYear, 0, 15)

\* EndDateOf defaulting the end whenever the start is absent too.
EndDateOf_DefaultedWithStart(schedule, currentYear) ==
  IF schedule.endDate # "" /\ schedule.startDate # ""
  THEN ParseDate(schedule.endDate)
  ELSE MakeDate(currentYear, 4, 15)

EndDateOf(schedule, currentYear) ==
  IF schedule.endDate # "" THEN ParseDate(schedule.endDate)
  ELSE MakeDate(currentYear, 4, 15)

\* SchedulePresent without the test of schedule.days.
SchedulePresent_NoDaysCheck(schedule) ==
  /\ ~schedule.isNull
  /\ schedule.startTime # ""
  /\ schedule.endTime # ""

\* Line 216: schedule && schedule.days && schedule.startTime && schedule.endTime
SchedulePresent(schedule) ==
  /\ ~schedule.isNull
  /\ schedule.days.type # "undefined"
  /\ schedule.startTime # ""
  /\ schedule.endTime # ""

\* Lines 215-311.  threw: schedule.days.map is not a function.
GenerateClassMeetingBlocks(schedule, currentYear) ==
  IF ~SchedulePresent(schedule) THEN [threw |-> FALSE, blocks |-> <<>>]
  ELSE
    LET startDate == StartDateOf(schedule, currentYear)
        endDate == EndDateOf(schedule, currentYear)
        st == SplitTime(schedule.startTime)
        et == SplitTime(schedule.endTime)
    IN IF isNaN(st[1]) \/ isNaN(st[2]) \/ isNaN(et[1]) \/ isNaN(et[2])
       THEN [threw |-> FALSE, blocks |-> <<>>]
       ELSE IF schedule.days.type # "array"
       THEN [threw |-> TRUE, blocks |-> <<>>]
       ELSE
         LET durationMinutes == ComputeDuration(st[1], st[2], et[1], et[2])
             scheduleDays == scheduleDaysOf(schedule.days.val)
         IN IF Len(scheduleDays) = 0
            THEN [threw |-> FALSE, blocks |-> <<>>]
            ELSE [threw |-> FALSE,
                  blocks |-> OccurrenceLoop(startDate, endDate, scheduleDays,
                                            schedule.startTime, durationMinutes)]

(***************************************************************************)
(* Schedule merger: lines 361-386 of the handler                           *)
(***************************************************************************)
\* ClassMeetingRow with the two owner columns exchanged.
ClassMeetingRow_SwappedOwner(block, userId, classId) ==
  [user_id |-> classId,
   class_id |-> userId,
   assignment_id |-> null,
   block_date |-> block.blockDate,
   start_time |-> block.startTime,
   duration_minutes |-> block.durationMinutes]

\* Lines 366-373.
ClassMeetingRow(block, userId, classId) ==
  [user_id |-> userId,
   class_id |-> classId,
   assignment_id |-> null,
   block_date |-> block.blockDate,
   start_time |-> block.startTime,
   duration_minutes |-> block.durationMinutes]

\* ResolveAssignmentId counting the inserted assignments from 1.
ResolveAssignmentId_OneBased(insertedAssignments, assignmentIndex) ==
  IF /\ assignmentIndex.k = "fin"
     /\ assignmentIndex.v >= 1
     /\ assignmentIndex.v <= Len(insertedAssignments)
  THEN insertedAssignments[assignmentIndex.v].id
  ELSE null

\* insertedAssignments[block.assignmentIndex]?.id || null : array elements
\* are numbered from 0; any index that is not one of 0..length-1 reads
\* undefined.
ResolveAssignmentId(insertedAssignments, assignmentIndex) ==
  IF /\ assignmentIndex.k = "fin"
     /\ assignmentIndex.v >= 0
     /\ assignmentIndex.v < Len(insertedAssignments)
  THEN insertedAssignments[assignmentIndex.v + 1].id
  ELSE null

\* Lines 378-385.
AssignmentRow(block, insertedAssignments, userId, classId) ==
  [user_id |-> userId,
   class_id |-> classId,
   assignment_id |-> ResolveAssignmentId(insertedAssignments, block.assignmentIndex),
   block_date |-> block.blockDate,
   start_time |-> block.startTime,
   duration_minutes |-> block.durationMinutes]

\* x.length > 0 for the value JSON.parse returned: an array has a length, an
\* object that is not an array has none (undefined > 0 is false).
NonEmptyArray(json) == json.kind = "array" /\ Len(json.val) > 0

\* Lines 362-386, for a planner value that is not null.
MergeStudyBlocks(classMeetingBlocks, assignmentStudyBlocks, insertedAssignments, userId, classId) ==
  (IF Len(classMeetingBlocks) > 0
   THEN [i \in 1..Len(classMeetingBlocks) |->
           ClassMeetingRow(classMeetingBlocks[i], userId, classId)]
   ELSE <<>>)
  \o
  (IF NonEmptyArray(assignmentStudyBlocks) /\ Len(insertedAssignments) > 0
   THEN [i \in 1..Len(assignmentStudyBlocks.val) |->
           AssignmentRow(assignmentStudyBlocks.val[i], insertedAssignments,
                         userId, classId)]
   ELSE <<>>)

(***************************************************************************)
(* Inputs                                                                  *)
(***************************************************************************)
MaxDays == 2
MaxSessions == 2
MaxAssignments == 2

Years == {2025, 2026}

EnvNames == {"SUPABASE_URL", "SUPABASE_SERVICE_ROLE_KEY", "LOVABLE_API_KEY"}

RequestBodies ==
  [syllabusUrl : {"", "u1/syllabus.pdf"}, classId : {"", "c1"}, userId : {"", "u1"}]

CompleteBody == [syllabusUrl |-> "u1/syllabus.pdf", classId |-> "c1", userId |-> "u1"]

DayTokens ==
  {"Monday", "Wednesday", "Mon", "M", "S", "Sun", "R", " Friday ", "monday",
   "Funday", "Monster", "Sunny"}

TimeStrings ==
  {"10:00", "11:00", "23:30", "00:30", "09:00", "09:05", "08:00", "14:00",
   "-1:30", "Infinity:00", "ten:00", "10"}

DateStrings == {"", "2025-01-13", "2025-01-24", "soon"}

SeqsUpTo(S, n) == UNION {[1..m -> S] : m \in 0..n}

DaysArray(val) == [type |-> "array", val |-> val]

\* Every accepted form of a day name, and the single letters U and N.
SingleTokens ==
  {"Monday", "Tuesday", "Wednesday", "Thursday", "Friday", "Saturday", "Sunday",
   "Mon", "Tue", "Wed", "Thu", "Fri", "Sat", "Sun",
   "M", "T", "W", "R", "F", "S", "U", "N"}

\* days as the AI may return it: missing, a string such as "MWF", or an array.
DaysValues ==
  {[type |-> "undefined", val |-> <<>>], [type |-> "string", val |-> <<>>]}
  \cup {DaysArray(val) : val \in SeqsUpTo(DayTokens, MaxDays)}
  \cup {DaysArray(<<token>>) : token \in SingleTokens}

NullSchedule ==
  [isNull |-> TRUE, days |-> [type |-> "undefined", val |-> <<>>],
   startTime |-> "", endTime |-> "", startDate |-> "", endDate |-> ""]

Schedule(days, startTime, endTime, startDate, endDate) ==
  [isNull |-> FALSE, days |-> days, startTime |-> startTime, endTime |-> endTime,
   startDate |-> startDate, endDate |-> endDate]

ExampleSchedule ==
  Schedule(DaysArray(<<"Monday", "Wednesday">>), "10:00", "11:00",
           "2025-01-13", "2025-01-24")

\* The schedules of the AI reply: every days value, every pair of times and
\* every pair of dates, each varied against the example schedule.
ScheduleInputs ==
  {NullSchedule}
  \cup {Schedule(d, "10:00", "11:00", "2025-01-13", "2025-01-24") : d \in DaysValues}
  \cup {Schedule(DaysArray(<<"Monday", "Wednesday">>), st, et,
                 "2025-01-13", "2025-01-24") :
          st \in TimeStrings \cup {""}, et \in TimeStrings \cup {""}}
  \cup {Schedule(DaysArray(<<"Monday", "Wednesday">>), "10:00", "11:00", sd, ed) :
          sd \in DateStrings, ed \in DateStrings}
  \cup {Schedule([type |-> "string", val |-> <<>>], "ten:00", "11:00", "", "")}

Topic(i) ==
  [title |-> "Week " \o Pad(i, 2), description |-> "", orderIndex |-> i,
   estimatedMinutes |-> 60]

Assignment(i) ==
  [title |-> "Problem Set " \o Pad(i, 2), type |-> "hw",
   dueDate |-> "2025-03-15", estimatedMinutes |-> 120]

TopicsOf(n) == [i \in 1..n |-> Topic(i)]

AssignmentsOf(n) == [i \in 1..n |-> Assignment(i)]

Session(blockDate, startTime, durationMinutes, assignmentIndex) ==
  [blockDate |-> blockDate, startTime |-> startTime,
   durationMinutes |-> durationMinutes, assignmentIndex |-> assignmentIndex]

\* The planner's sessions: every duration, every index and the dates that
\* matter, each varied against the session of the prompt's example.
SessionInputs ==
  {Session("2025-02-10", "18:00", d, Num(0)) :
     d \in {Num(45), Num(0), Num(-30), Num(300), Undefined}}
  \cup {Session("2025-02-10", "18:00", Num(45), ix) :
          ix \in {Num(i) : i \in -1..MaxAssignments} \cup {Undefined}}
  \cup {Session("soon", "18:00", Num(45), Num(0)),
        Session("2025-01-13", "10:00", Num(45), Num(0)),
        Session("2025-01-06", "", Num(45), Num(0))}

JsonArray(val) == [kind |-> "array", val |-> val]

\* What the planner call yields: a failed call, text that is not JSON, or
\* JSON that is null, an object or an array of sessions.
PlanReplies ==
  {[ok |-> FALSE, kind |-> "none", val |-> <<>>],
   [ok |-> TRUE, kind |-> "badJson", val |-> <<>>],
   [ok |-> TRUE, kind |-> "null", val |-> <<>>],
   [ok |-> TRUE, kind |-> "object", val |-> <<>>]}
  \cup {[ok |-> TRUE, kind |-> "array", val |-> val] :
          val \in SeqsUpTo(SessionInputs, MaxSessions)}

ExamplePlanReply ==
  [ok |-> TRUE, kind |-> "array",
   val |-> <<Session("2025-02-10", "18:00", Num(45), Num(0))>>]

ParseReply(ok, valid, schedule, nTopics, nAssignments) ==
  [ok |-> ok, valid |-> valid, schedule |-> schedule,
   topics |-> TopicsOf(nTopics), assignments |-> AssignmentsOf(nAssignments)]

(***************************************************************************)
(* The handler                                                             *)
(***************************************************************************)
VARIABLES
  pc,                    \* the next step of the handler
  currentYear,           \* today.getFullYear()
  aiReply,               \* what the syllabus-parsing AI call will yield
  planReply,             \* what the planner AI call will yield
  request,               \* the request body
  schedule,              \* destructured from the parsed AI reply (line 159)
  topics,
  assignments,
  insertedAssignments,
  totalMinutes,
  classMeetingBlocks,
  assignmentStudyBlocks,
  allStudyBlocks,
  syllabus_topics,       \* table rows
  syllabus_assignments,
  study_blocks,
  ai_parsed,             \* the ids of the classes whose ai_parsed is true
  response

\* What the invocation is given.
VARIABLES
  env,                   \* the names of the environment variables that are set
  req                    \* the body of the request, "" for a missing field

inputVars == <<env, req>>

\* Two invocations of the handler in one isolate: the variables above that
\* are declared inside the handler belong to the invocation that is running;
\* those of the other invocation wait at one of its awaits.
VARIABLES
  self,                  \* the invocation that is running, 1 or 2
  suspended              \* the handler-local values of the other invocation

serverVars == <<self, suspended>>

\* The occurrence loop of lines 293-306 taken one iteration at a time.
VARIABLES
  loopPc,                \* "before", "loop" or "after" the while statement
  endDate,               \* the end of the range (lines 248-250)
  durationMinutes,       \* the duration computed before the loop
  scheduleDays,          \* the weekday numbers of the schedule (lines 285-288)
  currentDate            \* the loop's Date object, as days since the epoch

loopVars == <<loopPc, endDate, durationMinutes, scheduleDays, currentDate>>

\* The SessionComplete page (src/pages/SessionComplete.tsx).
VARIABLES
  user,                  \* useAuth().user: "" when nobody is signed in
  visibility,            \* the visibility state of the page
  duration,              \* the duration search parameter, parsed
  photo,                 \* the photo search parameter
  sharePc,               \* where a call of handleShare stands
  shareVisibility,       \* visibility as the running call of handleShare sees it
  sessionData,           \* the row returned by the study_sessions insert
  study_sessions,        \* table rows
  feed_posts,            \* table rows
  toasts,                \* the titles of the toasts shown
  location,              \* the route the page is on
  calls                  \* the calls of handleShare made so far

shareVars ==
  <<user, visibility, duration, photo, sharePc, shareVisibility, sessionData,
    study_sessions, feed_posts, toasts, location, calls>>

otherVars == <<inputVars, serverVars, loopVars, shareVars>>

vars ==
  <<pc, currentYear, aiReply, planReply, request, schedule, topics, assignments,
    insertedAssignments, totalMinutes, classMeetingBlocks, assignmentStudyBlocks,
    allStudyBlocks, syllabus_topics, syllabus_assignments, study_blocks,
    ai_parsed, response, otherVars>>

NoResponse ==
  [status |-> 0, success |-> FALSE, error |-> "", topicsCount |-> 0,
   assignmentsCount |-> 0, studyBlocksCount |-> 0, classMeetingBlocksCount |-> 0,
   assignmentBlocksCount |-> Undefined, totalMinutes |-> 0]

\* Lines 426-443: the catch block's response.
ErrorResponse(message) ==
  [NoResponse EXCEPT !.status = 500, !.error = message]

\* The state the handler starts from, for a given environment and request body
\* and given replies of the two AI calls.
InitFor(set, body, year, parse, plan) ==
  /\ pc = "validate"
  /\ env = set
  /\ req = body
  /\ currentYear = year
  /\ aiReply = parse
  /\ planReply = plan
  /\ request = [syllabusUrl |-> "", classId |-> "", userId |-> ""]
  /\ schedule = NullSchedule
  /\ topics = <<>>
  /\ assignments = <<>>
  /\ insertedAssignments = <<>>
  /\ totalMinutes = 0
  /\ classMeetingBlocks = <<>>
  /\ assignmentStudyBlocks = JsonArray(<<>>)
  /\ allStudyBlocks = <<>>
  /\ syllabus_topics = <<>>
  /\ syllabus_assignments = <<>>
  /\ study_blocks = <<>>
  /\ ai_parsed = {}
  /\ response = NoResponse

\* The same with every environment variable set and a complete request.
InitWith(year, parse, plan) == InitFor(EnvNames, CompleteBody, year, parse, plan)

\* The handler-local values of an invocation that has not started.
Locals(status, body, parse, plan) ==
  [pc |-> status, req |-> body, aiReply |-> parse, planReply |-> plan,
   request |-> [syllabusUrl |-> "", classId |-> "", userId |-> ""],
   schedule |-> NullSchedule, topics |-> <<>>, assignments |-> <<>>,
   insertedAssignments |-> <<>>, totalMinutes |-> 0,
   classMeetingBlocks |-> <<>>, assignmentStudyBlocks |-> JsonArray(<<>>),
   allStudyBlocks |-> <<>>, response |-> NoResponse]

\* One invocation only: there is no other one to run.
ServerIdle ==
  /\ self = 1
  /\ suspended = Locals("absent", CompleteBody,
                        ParseReply(FALSE, FALSE, NullSchedule, 0, 0), ExamplePlanReply)

\* The occurrence loop is not followed by itself.
LoopIdle ==
  /\ loopPc = "before"
  /\ endDate = NaN
  /\ durationMinutes = NaN
  /\ scheduleDays = <<>>
  /\ currentDate = NaN

\* sessionData before the insert has answered.
NoSessionData == [present |-> FALSE, id |-> ""]

\* The page is not open.
ShareIdle ==
  /\ user = ""
  /\ visibility = "buddies"
  /\ duration = 45
  /\ photo = ""
  /\ sharePc = "idle"
  /\ shareVisibility = "buddies"
  /\ sessionData = NoSessionData
  /\ study_sessions = <<>>
  /\ feed_posts = <<>>
  /\ toasts = <<>>
  /\ location = "/dashboard"
  /\ calls = 0

\* Every planner reply against the absent and the example schedule, and every
\* schedule against one planner reply.
Init ==
  /\ ServerIdle
  /\ LoopIdle
  /\ ShareIdle
  /\ \/ \E sch \in {NullSchedule, ExampleSchedule}, nT \in 0..1,
           nA \in 0..MaxAssignments, plan \in PlanReplies :
          InitWith(2025, ParseReply(TRUE, TRUE, sch, nT, nA), plan)
     \/ \E year \in Years, sch \in ScheduleInputs, plan \in {ExamplePlanReply} :
          InitWith(year, ParseReply(TRUE, TRUE, sch, 1, 1), plan)
     \/ \E ok \in BOOLEAN :
          InitWith(2025, ParseReply(ok, FALSE, NullSchedule, 0, 0), ExamplePlanReply)
     \/ \E set \in SUBSET EnvNames, body \in RequestBodies :
          InitFor(set, body, 2025,
                  ParseReply(TRUE, TRUE, ExampleSchedule, 1, 1), ExamplePlanReply)

\* Throw deleting the rows the invocation has stored before it answers.
Throw_Rollback(message) ==
  /\ pc' = "done"
  /\ response' = ErrorResponse(message)
  /\ syllabus_topics' = <<>>
  /\ syllabus_assignments' = <<>>
  /\ UNCHANGED <<otherVars, currentYear, aiReply, planReply, request, schedule, topics,
                 assignments, insertedAssignments, totalMinutes,
                 classMeetingBlocks, assignmentStudyBlocks, allStudyBlocks,
                 study_blocks, ai_parsed>>

\* throw new Error(message), caught at line 426: nothing else changes.
Throw(message) ==
  /\ pc' = "done"
  /\ response' = ErrorResponse(message)
  /\ UNCHANGED <<otherVars, currentYear, aiReply, planReply, request, schedule, topics,
                 assignments, insertedAssignments, totalMinutes,
                 classMeetingBlocks, assignmentStudyBlocks, allStudyBlocks,
                 syllabus_topics, syllabus_assignments, study_blocks, ai_parsed>>

\* ValidateRequest without the test of LOVABLE_API_KEY.
ValidateRequest_NoApiKeyCheck ==
  /\ pc = "validate"
  /\ LET body == req IN
       IF "SUPABASE_URL" \notin env
       THEN Throw("SUPABASE_URL environment variable is not set in edge function")
       ELSE IF "SUPABASE_SERVICE_ROLE_KEY" \notin env
       THEN Throw("SUPABASE_SERVICE_ROLE_KEY environment variable is not set in edge function")
       ELSE IF body.syllabusUrl = "" \/ body.classId = "" \/ body.userId = ""
       THEN Throw("Missing required parameters: syllabusUrl, classId, or userId")
       ELSE /\ request' = body
            /\ pc' = "download"
            /\ UNCHANGED <<otherVars, currentYear, aiReply, planReply, schedule, topics,
                           assignments, insertedAssignments, totalMinutes,
                           classMeetingBlocks, assignmentStudyBlocks,
                           allStudyBlocks, syllabus_topics, syllabus_assignments,
                           study_blocks, ai_parsed, response>>

\* Lines 19-38: the environment and the request body are checked first.
ValidateRequest ==
  /\ pc = "validate"
  /\ LET body == req IN
       IF "SUPABASE_URL" \notin env
       THEN Throw("SUPABASE_URL environment variable is not set in edge function")
       ELSE IF "SUPABASE_SERVICE_ROLE_KEY" \notin env
       THEN Throw("SUPABASE_SERVICE_ROLE_KEY environment variable is not set in edge function")
       ELSE IF "LOVABLE_API_KEY" \notin env
       THEN Throw("LOVABLE_API_KEY environment variable is not set in edge function")
       ELSE IF body.syllabusUrl = "" \/ body.classId = "" \/ body.userId = ""
       THEN Throw("Missing required parameters: syllabusUrl, classId, or userId")
       ELSE /\ request' = body
            /\ pc' = "download"
            /\ UNCHANGED <<otherVars, currentYear, aiReply, planReply, schedule, topics,
                           assignments, insertedAssignments, totalMinutes,
                           classMeetingBlocks, assignmentStudyBlocks,
                           allStudyBlocks, syllabus_topics, syllabus_assignments,
                           study_blocks, ai_parsed, response>>

\* Lines 45-66: the syllabus file is fetched from storage.
DownloadSyllabus ==
  /\ pc = "download"
  /\ \E downloadError \in BOOLEAN :
       IF downloadError
       THEN Throw("Failed to download file: Object not found")
       ELSE /\ pc' = "parse"
            /\ UNCHANGED <<otherVars, currentYear, aiReply, planReply, request, schedule,
                           topics, assignments, insertedAssignments, totalMinutes,
                           classMeetingBlocks, assignmentStudyBlocks,
                           allStudyBlocks, syllabus_topics, syllabus_assignments,
                           study_blocks, ai_parsed, response>>

\* CallParseAI going on with nothing parsed when the reply is not JSON.
CallParseAI_EmptyOnInvalid ==
  /\ pc = "parse"
  /\ IF ~aiReply.ok
     THEN Throw("AI gateway error: 429")
     ELSE /\ schedule' = IF aiReply.valid THEN aiReply.schedule ELSE NullSchedule
          /\ topics' = IF aiReply.valid THEN aiReply.topics ELSE <<>>
          /\ assignments' = IF aiReply.valid THEN aiReply.assignments ELSE <<>>
          /\ pc' = "insertTopics"
          /\ UNCHANGED <<otherVars, currentYear, aiReply, planReply, request,
                         insertedAssignments, totalMinutes, classMeetingBlocks,
                         assignmentStudyBlocks, allStudyBlocks, syllabus_topics,
                         syllabus_assignments, study_blocks, ai_parsed, response>>

\* Lines 68-162: the syllabus-parsing AI call and the parse of its reply.
CallParseAI ==
  /\ pc = "parse"
  /\ IF ~aiReply.ok
     THEN Throw("AI gateway error: 429")
     ELSE IF ~aiReply.valid
     THEN Throw("AI returned invalid JSON format")
     ELSE /\ schedule' = aiReply.schedule
          /\ topics' = aiReply.topics
          /\ assignments' = aiReply.assignments
          /\ pc' = "insertTopics"
          /\ UNCHANGED <<otherVars, currentYear, aiReply, planReply, request,
                         insertedAssignments, totalMinutes, classMeetingBlocks,
                         assignmentStudyBlocks, allStudyBlocks, syllabus_topics,
                         syllabus_assignments, study_blocks, ai_parsed, response>>

\* Lines 166-172.
TopicRow(t, classId) ==
  [class_id |-> classId, title |-> t.title, description |-> t.description,
   order_index |-> t.orderIndex, estimated_minutes |-> t.estimatedMinutes]

\* Lines 164-183.
InsertTopics ==
  /\ pc = "insertTopics"
  /\ IF Len(topics) > 0
     THEN \E topicsError \in BOOLEAN :
            IF topicsError
            THEN Throw("Failed to save topics: insert failed")
            ELSE /\ syllabus_topics' =
                      syllabus_topics
                      \o [i \in 1..Len(topics) |-> TopicRow(topics[i], request.classId)]
                 /\ pc' = "insertAssignments"
                 /\ UNCHANGED <<otherVars, currentYear, aiReply, planReply, request, schedule,
                                topics, assignments, insertedAssignments,
                                totalMinutes, classMeetingBlocks,
                                assignmentStudyBlocks, allStudyBlocks,
                                syllabus_assignments, study_blocks, ai_parsed,
                                response>>
     ELSE /\ pc' = "insertAssignments"
          /\ UNCHANGED <<otherVars, currentYear, aiReply, planReply, request, schedule,
                         topics, assignments, insertedAssignments, totalMinutes,
                         classMeetingBlocks, assignmentStudyBlocks, allStudyBlocks,
                         syllabus_topics, syllabus_assignments, study_blocks,
                         ai_parsed, response>>

\* Lines 188-194, with the identifier the table gives the n-th row it stores.
AssignmentRowOf(a, classId, n) ==
  [id |-> "uuid-" \o Pad(n, 2), class_id |-> classId, title |-> a.title,
   type |-> a.type, due_date |-> a.dueDate,
   estimated_minutes |-> a.estimatedMinutes]

\* Lines 185-207: insert(...).select() returns the stored rows in order.
InsertAssignments ==
  /\ pc = "insertAssignments"
  /\ IF Len(assignments) > 0
     THEN \E assignError \in BOOLEAN :
            IF assignError
            THEN Throw("Failed to save assignments: insert failed")
            ELSE LET insertData ==
                       [i \in 1..Len(assignments) |->
                          AssignmentRowOf(assignments[i], request.classId,
                                          Len(syllabus_assignments) + i)]
                 IN /\ syllabus_assignments' = syllabus_assignments \o insertData
                    /\ insertedAssignments' = insertData
                    /\ pc' = "generate"
                    /\ UNCHANGED <<otherVars, currentYear, aiReply, planReply, request,
                                   schedule, topics, assignments, totalMinutes,
                                   classMeetingBlocks, assignmentStudyBlocks,
                                   allStudyBlocks, syllabus_topics, study_blocks,
                                   ai_parsed, response>>
     ELSE /\ pc' = "generate"
          /\ UNCHANGED <<otherVars, currentYear, aiReply, planReply, request, schedule,
                         topics, assignments, insertedAssignments, totalMinutes,
                         classMeetingBlocks, assignmentStudyBlocks, allStudyBlocks,
                         syllabus_topics, syllabus_assignments, study_blocks,
                         ai_parsed, response>>

RECURSIVE SumMinutes(_)
SumMinutes(items) ==
  IF Len(items) = 0 THEN 0
  ELSE items[1].estimatedMinutes + SumMinutes(Tail(items))

\* Lines 209-311: the total of the estimates and the class meeting blocks.
GenerateClassMeetings ==
  /\ pc = "generate"
  /\ LET generated == GenerateClassMeetingBlocks(schedule, currentYear)
     IN IF generated.threw
        THEN Throw("schedule.days.map is not a function")
        ELSE /\ totalMinutes' = SumMinutes(topics) + SumMinutes(assignments)
             /\ classMeetingBlocks' = generated.blocks
             /\ pc' = "plan"
             /\ UNCHANGED <<otherVars, currentYear, aiReply, planReply, request, schedule,
                            topics, assignments, insertedAssignments,
                            assignmentStudyBlocks, allStudyBlocks, syllabus_topics,
                            syllabus_assignments, study_blocks, ai_parsed,
                            response>>

\* CallPlanAI raising when the planner call fails or answers unparseable text.
CallPlanAI_ThrowOnFailure ==
  /\ pc = "plan"
  /\ IF planReply.ok /\ planReply.kind # "badJson"
     THEN /\ assignmentStudyBlocks' = [kind |-> planReply.kind, val |-> planReply.val]
          /\ pc' = "merge"
          /\ UNCHANGED <<otherVars, currentYear, aiReply, planReply, request, schedule,
                         topics, assignments, insertedAssignments, totalMinutes,
                         classMeetingBlocks, allStudyBlocks, syllabus_topics,
                         syllabus_assignments, study_blocks, ai_parsed, response>>
     ELSE Throw("Study plan generation failed")

\* Lines 313-359: the planner AI call; a failed call or unparseable text
\* leaves assignmentStudyBlocks the empty array.
CallPlanAI ==
  /\ pc = "plan"
  /\ assignmentStudyBlocks' =
       IF planReply.ok /\ planReply.kind # "badJson"
       THEN [kind |-> planReply.kind, val |-> planReply.val]
       ELSE JsonArray(<<>>)
  /\ pc' = "merge"
  /\ UNCHANGED <<otherVars, currentYear, aiReply, planReply, request, schedule, topics,
                 assignments, insertedAssignments, totalMinutes,
                 classMeetingBlocks, allStudyBlocks, syllabus_topics,
                 syllabus_assignments, study_blocks, ai_parsed, response>>

\* MergeBlocks asking the planner again when it got no session.
MergeBlocks_Replan ==
  /\ pc = "merge"
  /\ IF assignmentStudyBlocks.kind = "null"
     THEN Throw("Cannot read properties of null (reading 'length')")
     ELSE /\ allStudyBlocks' =
               MergeStudyBlocks(classMeetingBlocks, assignmentStudyBlocks,
                                insertedAssignments, request.userId,
                                request.classId)
          /\ pc' = IF NonEmptyArray(assignmentStudyBlocks) THEN "insertBlocks" ELSE "plan"
          /\ UNCHANGED <<otherVars, currentYear, aiReply, planReply, request, schedule,
                         topics, assignments, insertedAssignments, totalMinutes,
                         classMeetingBlocks, assignmentStudyBlocks, syllabus_topics,
                         syllabus_assignments, study_blocks, ai_parsed, response>>

\* Lines 361-386: reading .length of null throws a TypeError.
MergeBlocks ==
  /\ pc = "merge"
  /\ IF assignmentStudyBlocks.kind = "null"
     THEN Throw("Cannot read properties of null (reading 'length')")
     ELSE /\ allStudyBlocks' =
               MergeStudyBlocks(classMeetingBlocks, assignmentStudyBlocks,
                                insertedAssignments, request.userId,
                                request.classId)
          /\ pc' = "insertBlocks"
          /\ UNCHANGED <<otherVars, currentYear, aiReply, planReply, request, schedule,
                         topics, assignments, insertedAssignments, totalMinutes,
                         classMeetingBlocks, assignmentStudyBlocks, syllabus_topics,
                         syllabus_assignments, study_blocks, ai_parsed, response>>

\* InsertStudyBlocks going on when the insert failed.
InsertStudyBlocks_IgnoreError ==
  /\ pc = "insertBlocks"
  /\ IF Len(allStudyBlocks) > 0
     THEN \E blocksError \in BOOLEAN :
            /\ study_blocks' =
                 (IF blocksError THEN study_blocks ELSE study_blocks \o allStudyBlocks)
            /\ pc' = "updateClass"
            /\ UNCHANGED <<otherVars, currentYear, aiReply, planReply, request, schedule,
                           topics, assignments, insertedAssignments,
                           totalMinutes, classMeetingBlocks,
                           assignmentStudyBlocks, allStudyBlocks,
                           syllabus_topics, syllabus_assignments, ai_parsed,
                           response>>
     ELSE /\ pc' = "updateClass"
          /\ UNCHANGED <<otherVars, currentYear, aiReply, planReply, request, schedule,
                         topics, assignments, insertedAssignments, totalMinutes,
                         classMeetingBlocks, assignmentStudyBlocks, allStudyBlocks,
                         syllabus_topics, syllabus_assignments, study_blocks,
                         ai_parsed, response>>

\* InsertStudyBlocks replacing the blocks the class already has.
InsertStudyBlocks_ReplaceClass ==
  /\ pc = "insertBlocks"
  /\ IF Len(allStudyBlocks) > 0
     THEN \E blocksError \in BOOLEAN :
            IF blocksError
            THEN Throw("Failed to save study blocks: insert failed")
            ELSE /\ study_blocks' =
                      SelectSeq(study_blocks,
                                LAMBDA r : r.class_id # request.classId)
                      \o allStudyBlocks
                 /\ pc' = "updateClass"
                 /\ UNCHANGED <<otherVars, currentYear, aiReply, planReply, request, schedule,
                                topics, assignments, insertedAssignments,
                                totalMinutes, classMeetingBlocks,
                                assignmentStudyBlocks, allStudyBlocks,
                                syllabus_topics, syllabus_assignments, ai_parsed,
                                response>>
     ELSE /\ pc' = "updateClass"
          /\ UNCHANGED <<otherVars, currentYear, aiReply, planReply, request, schedule,
                         topics, assignments, insertedAssignments, totalMinutes,
                         classMeetingBlocks, assignmentStudyBlocks, allStudyBlocks,
                         syllabus_topics, syllabus_assignments, study_blocks,
                         ai_parsed, response>>

\* Lines 388-399.
InsertStudyBlocks ==
  /\ pc = "insertBlocks"
  /\ IF Len(allStudyBlocks) > 0
     THEN \E blocksError \in BOOLEAN :
            IF blocksError
            THEN Throw("Failed to save study blocks: insert failed")
            ELSE /\ study_blocks' = study_blocks \o allStudyBlocks
                 /\ pc' = "updateClass"
                 /\ UNCHANGED <<otherVars, currentYear, aiReply, planReply, request, schedule,
                                topics, assignments, insertedAssignments,
                                totalMinutes, classMeetingBlocks,
                                assignmentStudyBlocks, allStudyBlocks,
                                syllabus_topics, syllabus_assignments, ai_parsed,
                                response>>
     ELSE /\ pc' = "updateClass"
          /\ UNCHANGED <<otherVars, currentYear, aiReply, planReply, request, schedule,
                         topics, assignments, insertedAssignments, totalMinutes,
                         classMeetingBlocks, assignmentStudyBlocks, allStudyBlocks,
                         syllabus_topics, syllabus_assignments, study_blocks,
                         ai_parsed, response>>

\* Lines 413-424.
SuccessResponse ==
  [status |-> 200, success |-> TRUE, error |-> "",
   topicsCount |-> Len(topics),
   assignmentsCount |-> Len(assignments),
   studyBlocksCount |-> Len(allStudyBlocks),
   classMeetingBlocksCount |-> Len(classMeetingBlocks),
   assignmentBlocksCount |->
     IF assignmentStudyBlocks.kind = "array"
     THEN Num(Len(assignmentStudyBlocks.val))
     ELSE Undefined,
   totalMinutes |-> totalMinutes]

\* Lines 401-424: the result of the update is not inspected, so a failed
\* update still ends in the success response.
UpdateClass ==
  /\ pc = "updateClass"
  /\ \E updateError \in BOOLEAN :
       ai_parsed' = (IF updateError THEN ai_parsed ELSE ai_parsed \cup {request.classId})
  /\ response' = SuccessResponse
  /\ pc' = "done"
  /\ UNCHANGED <<otherVars, currentYear, aiReply, planReply, request, schedule, topics,
                 assignments, insertedAssignments, totalMinutes,
                 classMeetingBlocks, assignmentStudyBlocks, allStudyBlocks,
                 syllabus_topics, syllabus_assignments, study_blocks>>

Next ==
  \/ ValidateRequest
  \/ DownloadSyllabus
  \/ CallParseAI
  \/ InsertTopics
  \/ InsertAssignments
  \/ GenerateClassMeetings
  \/ CallPlanAI
  \/ MergeBlocks
  \/ InsertStudyBlocks
  \/ UpdateClass

Spec == Init /\ [][Next]_vars

(***************************************************************************)
(* Two invocations of the handler                                          *)
(***************************************************************************)
\* The handler-local values of the invocation that is running.
CurrentLocals ==
  [pc |-> pc, req |-> req, aiReply |-> aiReply, planReply |-> planReply,
   request |-> request, schedule |-> schedule, topics |-> topics,
   assignments |-> assignments, insertedAssignments |-> insertedAssignments,
   totalMinutes |-> totalMinutes, classMeetingBlocks |-> classMeetingBlocks,
   assignmentStudyBlocks |-> assignmentStudyBlocks,
   allStudyBlocks |-> allStudyBlocks, response |-> response]

\* The steps that begin with the settling of an await (req.json, download,
\* fetch, insert, update), and the end of the invocation: there the event
\* loop may run the other invocation.  The generator and the merger run on
\* without an await.
SuspensionPoints ==
  {"validate", "download", "parse", "insertTopics", "insertAssignments", "plan",
   "insertBlocks", "updateClass", "done"}

\* Switch with `request` kept in one place for both invocations.
Switch_SharedRequest ==
  /\ pc \in SuspensionPoints
  /\ suspended.pc \notin {"absent", "done"}
  /\ suspended' = CurrentLocals
  /\ self' = 3 - self
  /\ pc' = suspended.pc
  /\ req' = suspended.req
  /\ aiReply' = suspended.aiReply
  /\ planReply' = suspended.planReply
  /\ schedule' = suspended.schedule
  /\ topics' = suspended.topics
  /\ assignments' = suspended.assignments
  /\ insertedAssignments' = suspended.insertedAssignments
  /\ totalMinutes' = suspended.totalMinutes
  /\ classMeetingBlocks' = suspended.classMeetingBlocks
  /\ assignmentStudyBlocks' = suspended.assignmentStudyBlocks
  /\ allStudyBlocks' = suspended.allStudyBlocks
  /\ response' = suspended.response
  /\ UNCHANGED <<env, loopVars, shareVars, currentYear, request, syllabus_topics,
                 syllabus_assignments, study_blocks, ai_parsed>>

\* The running invocation waits at an await and the other one goes on: each
\* invocation has its own req and its own const and let bindings (lines
\* 13-424 are inside the handler's closure); the environment and the tables
\* are the same for both.
Switch ==
  /\ pc \in SuspensionPoints
  /\ suspended.pc \notin {"absent", "done"}
  /\ suspended' = CurrentLocals
  /\ self' = 3 - self
  /\ pc' = suspended.pc
  /\ req' = suspended.req
  /\ aiReply' = suspended.aiReply
  /\ planReply' = suspended.planReply
  /\ request' = suspended.request
  /\ schedule' = suspended.schedule
  /\ topics' = suspended.topics
  /\ assignments' = suspended.assignments
  /\ insertedAssignments' = suspended.insertedAssignments
  /\ totalMinutes' = suspended.totalMinutes
  /\ classMeetingBlocks' = suspended.classMeetingBlocks
  /\ assignmentStudyBlocks' = suspended.assignmentStudyBlocks
  /\ allStudyBlocks' = suspended.allStudyBlocks
  /\ response' = suspended.response
  /\ UNCHANGED <<env, loopVars, shareVars, currentYear, syllabus_topics,
                 syllabus_assignments, study_blocks, ai_parsed>>

\* A request for another class of another user.
OtherBody == [syllabusUrl |-> "u2/syllabus.pdf", classId |-> "c2", userId |-> "u2"]

\* The replies of the two AI calls that the invocations are given.
ServerParseReplies ==
  {ParseReply(TRUE, TRUE, ExampleSchedule, 1, 1),
   ParseReply(TRUE, TRUE, NullSchedule, 0, MaxAssignments)}

ServerPlanReplies ==
  {ExamplePlanReply, [ok |-> FALSE, kind |-> "none", val |-> <<>>]}

\* Two requests have arrived; the second is for the same class or for another.
ServerInit ==
  /\ LoopIdle
  /\ ShareIdle
  /\ self = 1
  /\ \E parse1 \in ServerParseReplies, plan1 \in ServerPlanReplies :
       InitWith(2025, parse1, plan1)
  /\ \E body2 \in {CompleteBody, OtherBody}, parse2 \in ServerParseReplies,
        plan2 \in ServerPlanReplies :
       suspended = Locals("validate", body2, parse2, plan2)

ServerNext ==
  \/ ValidateRequest
  \/ DownloadSyllabus
  \/ CallParseAI
  \/ InsertTopics
  \/ InsertAssignments
  \/ GenerateClassMeetings
  \/ CallPlanAI
  \/ MergeBlocks
  \/ InsertStudyBlocks
  \/ UpdateClass
  \/ Switch

ServerSpec == ServerInit /\ [][ServerNext]_vars

(***************************************************************************)
(* SessionComplete.tsx: saving and sharing a finished session              *)
(***************************************************************************)
MaxCalls == 3

\* useAuth(): no user ("") or a signed-in one.
ShareUsers == {"", "u1"}

Visibilities == {"buddies", "everyone", "only_me"}

\* parseInt of the duration parameter, 45 when it is absent.
ShareDurations == {45, 25}

\* The photo parameter, '' when it is absent.
SharePhotos == {"", "p.jpg"}

DefaultPhoto == "https://images.unsplash.com/photo-1456513080510-7bf3a84b82f8?w=800"

SessionPage == "/session-complete"

\* The page has just been opened.
ShareInit ==
  /\ ServerIdle
  /\ LoopIdle
  /\ InitWith(2025, ParseReply(TRUE, TRUE, ExampleSchedule, 1, 1), ExamplePlanReply)
  /\ user \in ShareUsers
  /\ visibility = "buddies"
  /\ duration \in ShareDurations
  /\ photo \in SharePhotos
  /\ sharePc = "idle"
  /\ shareVisibility = "buddies"
  /\ sessionData = NoSessionData
  /\ study_sessions = <<>>
  /\ feed_posts = <<>>
  /\ toasts = <<>>
  /\ location = SessionPage
  /\ calls = 0

handlerVars ==
  <<pc, currentYear, aiReply, planReply, request, schedule, topics, assignments,
    insertedAssignments, totalMinutes, classMeetingBlocks, assignmentStudyBlocks,
    allStudyBlocks, syllabus_topics, syllabus_assignments, study_blocks, ai_parsed,
    response>>

\* Lines 185, 198, 211: the three visibility buttons.
SetVisibility ==
  /\ location = SessionPage
  /\ \E v \in Visibilities \ {visibility} : visibility' = v
  /\ UNCHANGED <<handlerVars, inputVars, serverVars, loopVars, user, duration, photo,
                 sharePc, shareVisibility, sessionData, study_sessions, feed_posts,
                 toasts, location, calls>>

\* Lines 105-107 and 242.
HandleSkip ==
  /\ location = SessionPage
  /\ location' = "/dashboard"
  /\ UNCHANGED <<handlerVars, inputVars, serverVars, loopVars, user, visibility,
                 duration, photo, sharePc, shareVisibility, sessionData,
                 study_sessions, feed_posts, toasts, calls>>

\* Lines 57-58 and 231: the Share button; the call works with the visibility
\* of the render it was made in.
HandleShare ==
  /\ location = SessionPage
  /\ sharePc = "idle"
  /\ calls < MaxCalls
  /\ calls' = calls + 1
  /\ IF user = ""
     THEN UNCHANGED <<sharePc, shareVisibility, sessionData>>
     ELSE /\ sharePc' = "insertSession"
          /\ shareVisibility' = visibility
          /\ sessionData' = NoSessionData
  /\ UNCHANGED <<handlerVars, inputVars, serverVars, loopVars, user, visibility,
                 duration, photo, study_sessions, feed_posts, toasts, location>>

\* Lines 95-101: the catch block.
ShareFailed(message) ==
  /\ toasts' = Append(toasts, [title |-> "Failed to save session",
                               description |-> message])
  /\ sharePc' = "idle"
  /\ UNCHANGED location

\* Lines 89-94; the title ends with a party emoji in the source.
ShareSaved ==
  /\ toasts' = Append(toasts,
                      [title |-> "Session saved!",
                       description |-> IF shareVisibility = "only_me"
                                       THEN "Kept private as requested"
                                       ELSE "Shared with your study buddies"])
  /\ sharePc' = "idle"
  /\ location' = "/dashboard"

\* Lines 62-71, with the identifier the table gives the n-th row.
SessionRow(n) ==
  [id |-> "s-" \o Pad(n, 2), user_id |-> user, minutes_studied |-> duration,
   photo_url |-> IF photo = "" THEN null ELSE photo]

\* Lines 80-85.
PostRow ==
  [user_id |-> user, session_id |-> sessionData.id,
   photo_url |-> IF photo = "" THEN DefaultPhoto ELSE photo,
   minutes_studied |-> duration]

\* InsertSession going on to the feed post whatever visibility was chosen.
InsertSession_AlwaysPost ==
  /\ sharePc = "insertSession"
  /\ \E sessionError \in BOOLEAN :
       IF sessionError
       THEN ShareFailed("insert failed")
            /\ UNCHANGED <<sessionData, study_sessions>>
       ELSE /\ study_sessions' = Append(study_sessions, SessionRow(Len(study_sessions) + 1))
            /\ sessionData' = [present |-> TRUE, id |-> SessionRow(Len(study_sessions) + 1).id]
            /\ sharePc' = "insertPost"
            /\ UNCHANGED <<toasts, location>>
  /\ UNCHANGED <<handlerVars, inputVars, serverVars, loopVars, user, visibility,
                 duration, photo, shareVisibility, feed_posts, calls>>

\* Lines 60-77 and 89-94: insert(...).select().single() answers the stored
\* row or an error; with 'only_me' the call goes on to the toast at once.
InsertSession ==
  /\ sharePc = "insertSession"
  /\ \E sessionError \in BOOLEAN :
       IF sessionError
       THEN ShareFailed("insert failed")
            /\ UNCHANGED <<sessionData, study_sessions>>
       ELSE /\ study_sessions' = Append(study_sessions, SessionRow(Len(study_sessions) + 1))
            /\ sessionData' = [present |-> TRUE, id |-> SessionRow(Len(study_sessions) + 1).id]
            /\ IF shareVisibility # "only_me" /\ sessionData'.present
               THEN sharePc' = "insertPost" /\ UNCHANGED <<toasts, location>>
               ELSE ShareSaved
  /\ UNCHANGED <<handlerVars, inputVars, serverVars, loopVars, user, visibility,
                 duration, photo, shareVisibility, feed_posts, calls>>

\* Lines 78-94.
InsertPost ==
  /\ sharePc = "insertPost"
  /\ \E postError \in BOOLEAN :
       IF postError
       THEN ShareFailed("insert failed") /\ UNCHANGED feed_posts
       ELSE feed_posts' = Append(feed_posts, PostRow) /\ ShareSaved
  /\ UNCHANGED <<handlerVars, inputVars, serverVars, loopVars, user, visibility,
                 duration, photo, shareVisibility, sessionData, study_sessions, calls>>

ShareNext ==
  \/ SetVisibility
  \/ HandleSkip
  \/ HandleShare
  \/ InsertSession
  \/ InsertPost

ShareSpec == ShareInit /\ [][ShareNext]_vars

(***************************************************************************)
(* The recurrence generator one loop iteration at a time: lines 215-311    *)
(***************************************************************************)
\* Date.prototype.getDate: the day of the month.
getDate(date) == CivilFromDays(date.v).d

\* Date.prototype.setDate(day): the day of the month is replaced; a day past
\* the end of the month runs on into the following month.
setDate(date, day) ==
  LET c == CivilFromDays(date.v) IN MakeDate(c.y, c.m - 1, day)

LoopYears == Years \cup {2024}

\* Schedules for the loop: every pair of dates against day lists that
\* resolve, do not resolve or are no list, and times that do not parse.
LoopSchedules ==
  {Schedule(days, "10:00", "11:00", first, last) :
     days \in {DaysArray(<<"Monday", "Wednesday">>), DaysArray(<<"S", "Sun">>),
               DaysArray(<<"Funday">>), [type |-> "string", val |-> <<>>]},
     first \in DateStrings, last \in DateStrings}
  \cup {Schedule(DaysArray(<<"Monday", "Wednesday">>), "ten:00", "11:00", first, "") :
          first \in DateStrings}

\* What the generator leaves alone.
generatorFrame ==
  <<inputVars, serverVars, shareVars, currentYear, aiReply, planReply, request,
    schedule, topics, assignments, insertedAssignments, assignmentStudyBlocks,
    allStudyBlocks, syllabus_topics, syllabus_assignments, study_blocks, ai_parsed>>

\* The handler is invoked with an AI reply that holds one of the schedules.
LoopInit ==
  /\ ServerIdle
  /\ ShareIdle
  /\ LoopIdle
  /\ \/ \E sch \in LoopSchedules :
          InitWith(2025, ParseReply(TRUE, TRUE, sch, 1, 1), ExamplePlanReply)
     \/ \E year \in LoopYears :
          InitWith(year,
                   ParseReply(TRUE, TRUE,
                              Schedule(DaysArray(<<"Monday", "Wednesday">>),
                                       "10:00", "11:00", "", ""), 1, 1),
                   ExamplePlanReply)

\* Lines 210-294: everything of the generator before the while statement.
EnterGenerator ==
  /\ pc = "generate"
  /\ loopPc = "before"
  /\ totalMinutes' = SumMinutes(topics) + SumMinutes(assignments)
  /\ IF ~SchedulePresent(schedule)
     THEN /\ loopPc' = "after"
          /\ UNCHANGED <<pc, endDate, durationMinutes, scheduleDays, currentDate,
                         response>>
     ELSE \E st \in {SplitTime(schedule.startTime)}, et \in {SplitTime(schedule.endTime)} :
            /\ endDate' = EndDateOf(schedule, currentYear)
            /\ IF isNaN(st[1]) \/ isNaN(st[2]) \/ isNaN(et[1]) \/ isNaN(et[2])
               THEN /\ loopPc' = "after"
                    /\ UNCHANGED <<pc, durationMinutes, scheduleDays, currentDate,
                                   response>>
               ELSE /\ durationMinutes' = ComputeDuration(st[1], st[2], et[1], et[2])
                    /\ IF schedule.days.type # "array"
                       THEN /\ pc' = "done"
                            /\ response' =
                                 ErrorResponse("schedule.days.map is not a function")
                            /\ UNCHANGED <<loopPc, scheduleDays, currentDate>>
                       ELSE /\ scheduleDays' = scheduleDaysOf(schedule.days.val)
                            /\ IF Len(scheduleDaysOf(schedule.days.val)) = 0
                               THEN /\ loopPc' = "after"
                                    /\ UNCHANGED <<pc, currentDate, response>>
                               ELSE /\ loopPc' = "loop"
                                    /\ currentDate' = StartDateOf(schedule, currentYear)
                                    /\ UNCHANGED <<pc, response>>
  /\ UNCHANGED <<generatorFrame, classMeetingBlocks>>

\* LoopIteration moving currentDate a week on.
LoopIteration_WeekStep ==
  /\ pc = "generate"
  /\ loopPc = "loop"
  /\ JsLe(currentDate, endDate)
  /\ classMeetingBlocks' =
       IF includes(scheduleDays, Num(getDay(currentDate)))
       THEN Append(classMeetingBlocks,
                   [blockDate |-> toISODate(currentDate),
                    startTime |-> schedule.startTime,
                    durationMinutes |-> durationMinutes,
                    isClassMeeting |-> TRUE])
       ELSE classMeetingBlocks
  /\ currentDate' = setDate(currentDate, getDate(currentDate) + 7)
  /\ UNCHANGED <<generatorFrame, pc, loopPc, endDate, durationMinutes, scheduleDays,
                 totalMinutes, response>>

\* Lines 295-306: one iteration of the while statement.
LoopIteration ==
  /\ pc = "generate"
  /\ loopPc = "loop"
  /\ JsLe(currentDate, endDate)
  /\ classMeetingBlocks' =
       IF includes(scheduleDays, Num(getDay(currentDate)))
       THEN Append(classMeetingBlocks,
                   [blockDate |-> toISODate(currentDate),
                    startTime |-> schedule.startTime,
                    durationMinutes |-> durationMinutes,
                    isClassMeeting |-> TRUE])
       ELSE classMeetingBlocks
  /\ currentDate' = setDate(currentDate, getDate(currentDate) + 1)
  /\ UNCHANGED <<generatorFrame, pc, loopPc, endDate, durationMinutes, scheduleDays,
                 totalMinutes, response>>

\* Line 295: the condition of the while statement is false.
LoopExit ==
  /\ pc = "generate"
  /\ loopPc = "loop"
  /\ ~JsLe(currentDate, endDate)
  /\ loopPc' = "after"
  /\ UNCHANGED <<generatorFrame, pc, endDate, durationMinutes, scheduleDays,
                 currentDate, totalMinutes, classMeetingBlocks, response>>

\* Lines 308-314: on to the planner call.
LeaveGenerator ==
  /\ pc = "generate"
  /\ loopPc = "after"
  /\ pc' = "plan"
  /\ UNCHANGED <<generatorFrame, loopVars, totalMinutes, classMeetingBlocks,
                 response>>

LoopNext ==
  \/ ValidateRequest
  \/ DownloadSyllabus
  \/ CallParseAI
  \/ InsertTopics
  \/ InsertAssignments
  \/ EnterGenerator
  \/ LoopIteration
  \/ LoopExit
  \/ LeaveGenerator

\* The handler is synchronous between its awaits and every await settles, so
\* a step that can be taken is taken.
LoopSpec == LoopInit /\ [][LoopNext]_vars /\ WF_vars(LoopNext)

(***************************************************************************)
(* Properties                                                              *)
(***************************************************************************)
BlockDates(blocks) == [i \in 1..Len(blocks) |-> blocks[i].blockDate]

Range(f) == {f[i] : i \in DOMAIN f}

\* The generator has just run to completion on `schedule`.
Generated == pc = "plan"

\* The merger has just run to completion.
Merged == pc = "insertBlocks"

\* Hour and minute of both times are numbers (not NaN, not missing).
TimesParse(sch) ==
  /\ sch.startTime # ""
  /\ sch.endTime # ""
  /\ \A n \in Range(SplitTime(sch.startTime)) \cup Range(SplitTime(sch.endTime)) :
       n.k \in {"fin", "inf", "ninf"}

\* A duration that is a whole number of minutes within [15, 240].
InClampRange(d) == d.k = "fin" /\ d.v >= 15 /\ d.v <= 240

\* The weekdays the tokens of `days` resolve to.
ResolvedDaySet(days) == {d.v : d \in Range(scheduleDaysOf(days))}

\* The dates of [first, last] that fall on one of `weekdays`, as YYYY-MM-DD.
MatchingDates(first, last, weekdays) ==
  {toISODate(Num(d)) : d \in {e \in first..last : getDay(Num(e)) \in weekdays}}

C1_Applies ==
  /\ Generated
  /\ ~schedule.isNull
  /\ schedule.days.type = "array"
  /\ TimesParse(schedule)
  /\ ResolvedDaySet(schedule.days.val) # {}
  /\ StartDateOf(schedule, currentYear).k = "fin"
  /\ EndDateOf(schedule, currentYear).k = "fin"

\* C1: for a usable schedule over the range [startDate, endDate] the generator
\* emits exactly one class-meeting block for every date of the range, both
\* ends included, whose weekday is in the resolved day set, and no other block.
C1_OneBlockPerMatchingDate ==
  C1_Applies =>
    LET expected == MatchingDates(StartDateOf(schedule, currentYear).v,
                                  EndDateOf(schedule, currentYear).v,
                                  ResolvedDaySet(schedule.days.val))
    IN /\ Range(BlockDates(classMeetingBlocks)) = expected
       /\ Len(classMeetingBlocks) = Cardinality(expected)

\* Monday/Wednesday over 2025-01-13..2025-01-24 gave the four dates.
C1_Witness ==
  /\ Generated
  /\ schedule = ExampleSchedule
  /\ BlockDates(classMeetingBlocks) =
       <<"2025-01-13", "2025-01-15", "2025-01-20", "2025-01-22">>

\* C2: every block of the merged list, class meeting or assignment study
\* session, has a duration that is a whole number of minutes within [15, 240].
C2_EveryBlockDurationClamped ==
  \A i \in 1..Len(allStudyBlocks) : InClampRange(allStudyBlocks[i].duration_minutes)

\* C3: every emitted class-meeting block has a duration within [15, 240]
\* whenever hour and minute of both times parse as numbers.
C3_ClassMeetingDurationInRange ==
  (Generated /\ TimesParse(schedule)) =>
    \A i \in 1..Len(classMeetingBlocks) :
      InClampRange(classMeetingBlocks[i].durationMinutes)

\* The index is a number outside 0..n-1.
IndexOutOfBounds(assignmentIndex, n) ==
  assignmentIndex.k = "fin" /\ (assignmentIndex.v < 0 \/ assignmentIndex.v >= n)

\* Row `row` is the block of planned session `session`.
RowOfSession(row, session) ==
  /\ row.block_date = session.blockDate
  /\ row.start_time = session.startTime
  /\ row.duration_minutes = session.durationMinutes

\* C4: a planned session whose assignmentIndex is negative or not below the
\* number of resolved assignments (none at all included) still has its block
\* in the merged output, with a null assignment link.
C4_OutOfBoundsIndexKeepsBlock ==
  (Merged /\ assignmentStudyBlocks.kind = "array") =>
    \A j \in 1..Len(assignmentStudyBlocks.val) :
      IndexOutOfBounds(assignmentStudyBlocks.val[j].assignmentIndex,
                       Len(insertedAssignments)) =>
        \E k \in (Len(classMeetingBlocks) + 1)..Len(allStudyBlocks) :
          /\ RowOfSession(allStudyBlocks[k], assignmentStudyBlocks.val[j])
          /\ allStudyBlocks[k].assignment_id = null

\* The planned sessions whose date cannot be parsed.
UnparseableSessions(sessions) ==
  {j \in 1..Len(sessions) : ParseDate(sessions[j].blockDate).k = "nan"}

\* C5: the merged list is as long as the class meetings plus the planned
\* sessions minus the planned sessions dropped for an unparseable date.
C5_MergedLength ==
  (Merged /\ assignmentStudyBlocks.kind = "array") =>
    Len(allStudyBlocks) =
      Len(classMeetingBlocks) + Len(assignmentStudyBlocks.val)
      - Cardinality(UnparseableSessions(assignmentStudyBlocks.val))

\* C6: the generated blocks are a function of the schedule alone: whatever
\* the year of the invocation, the same schedule gives the same sequence.
C6_IndependentOfInvocationTime ==
  Generated =>
    \A year \in Years :
      classMeetingBlocks = GenerateClassMeetingBlocks(schedule, year).blocks

\* C6 as amended: with both startDate and endDate given, the generated blocks
\* do not depend on the year of the invocation.
C6_IndependentWhenRangeGiven ==
  (Generated /\ ~schedule.isNull /\ schedule.startDate # "" /\ schedule.endDate # "") =>
    \A year \in Years :
      classMeetingBlocks = GenerateClassMeetingBlocks(schedule, year).blocks

\* Blocks were generated for a given range in a year other than the range's.
C6_Witness ==
  /\ Generated
  /\ schedule = ExampleSchedule
  /\ currentYear = 2026
  /\ Len(classMeetingBlocks) = 4

\* Math.max and Math.min: NaN if an argument is NaN.
MathMax(a, b) == IF isNaN(a) \/ isNaN(b) THEN NaN ELSE IF JsLt(a, b) THEN b ELSE a

MathMin(a, b) == IF isNaN(a) \/ isNaN(b) THEN NaN ELSE IF JsLt(b, a) THEN b ELSE a

\* clamp(raw', 15, 240) of the claim, from the schedule's two times.
ClampedDifference(sch) ==
  LET st == SplitTime(sch.startTime)
      et == SplitTime(sch.endTime)
      raw == JsSub(JsAdd(JsMul(et[1], Num(60)), et[2]),
                   JsAdd(JsMul(st[1], Num(60)), st[2]))
      rolled == IF JsLt(raw, Num(0)) THEN JsAdd(raw, Num(1440)) ELSE raw
  IN MathMin(MathMax(rolled, Num(15)), Num(240))

\* C7: the class-meeting duration is clamp(raw', 15, 240), the rollover of a
\* negative difference coming before the clamp; 23:30-00:30 gives 60,
\* 09:00-09:05 gives 15 and 08:00-14:00 gives 240.
C7_DurationIsClampedDifference ==
  Generated =>
    \A i \in 1..Len(classMeetingBlocks) :
      LET d == classMeetingBlocks[i].durationMinutes IN
      /\ d = ClampedDifference(schedule)
      /\ (schedule.startTime = "23:30" /\ schedule.endTime = "00:30") => d = Num(60)
      /\ (schedule.startTime = "09:00" /\ schedule.endTime = "09:05") => d = Num(15)
      /\ (schedule.startTime = "08:00" /\ schedule.endTime = "14:00") => d = Num(240)

\* Blocks of a meeting that ends after midnight.
C7_Witness ==
  /\ Generated
  /\ schedule.startTime = "23:30"
  /\ schedule.endTime = "00:30"
  /\ Len(classMeetingBlocks) > 0
  /\ classMeetingBlocks[1].durationMinutes = Num(60)

\* The schedule is null or lacks days, startTime or endTime.
ScheduleLacking(sch) ==
  \/ sch.isNull
  \/ sch.days.type = "undefined"
  \/ sch.startTime = ""
  \/ sch.endTime = ""

\* C8: for a schedule that is absent or lacks days, startTime or endTime the
\* generator step yields no class-meeting block and the handler goes on to
\* the planner call instead of failing.
C8_AbsentScheduleYieldsNothing ==
  [][(pc = "generate" /\ ScheduleLacking(schedule)) =>
       (pc' = "plan" /\ classMeetingBlocks' = <<>> /\ response' = NoResponse)]_vars

\* The generator ran on a schedule that has times but no days.
C8_Witness ==
  /\ Generated
  /\ ~schedule.isNull
  /\ schedule.days.type = "undefined"
  /\ schedule.startTime = "10:00"
  /\ classMeetingBlocks = <<>>

\* The string is two runs of digits separated by one colon.
IsHourMinute(str) ==
  LET parts == split(str, ":")
  IN Len(parts) = 2 /\ AllDigits(parts[1]) /\ AllDigits(parts[2])

\* C9: when startTime or endTime is not two non-negative integers in HH:mm
\* form the generator emits no class-meeting block.
C9_MalformedTimeYieldsNothing ==
  (Generated /\ ~schedule.isNull
     /\ ~(IsHourMinute(schedule.startTime) /\ IsHourMinute(schedule.endTime))) =>
    classMeetingBlocks = <<>>

\* The weekdays of the tokens that, trimmed, are keys of the table.
ExactDaySet(days) ==
  {dayMap[trim(days[i])] : i \in {j \in 1..Len(days) : trim(days[j]) \in DOMAIN dayMap}}

\* The weekdays of the tokens that, trimmed, are keys of the table or begin
\* with a three-character key of the table.
PrefixDaySet(days) ==
  ExactDaySet(days)
  \cup {dayMap[substring(trim(days[i]), 3)] :
          i \in {j \in 1..Len(days) : /\ trim(days[j]) \notin DOMAIN dayMap
                                      /\ substring(trim(days[j]), 3) \in DOMAIN dayMap}}

\* The generator step runs on a schedule with an array of days, two parseable
\* times and a valid range.
GeneratesFromDays ==
  /\ pc = "generate"
  /\ ~schedule.isNull
  /\ schedule.days.type = "array"
  /\ TimesParse(schedule)
  /\ StartDateOf(schedule, currentYear).k = "fin"
  /\ EndDateOf(schedule, currentYear).k = "fin"

\* The step goes on to the planner call having emitted exactly the dates of
\* the range that fall on `weekdays`.
EmitsFor(weekdays) ==
  /\ pc' = "plan"
  /\ response' = NoResponse
  /\ Range(BlockDates(classMeetingBlocks')) =
       MatchingDates(StartDateOf(schedule, currentYear).v,
                     EndDateOf(schedule, currentYear).v, weekdays)

\* C10: only a token that is a full name, a three-letter abbreviation or a
\* single letter of the table contributes a weekday; any other token, such as
\* "Monster" or "Sunny", is dropped, and with no token left nothing is emitted.
C10_OnlyExactTokensResolve ==
  [][GeneratesFromDays => EmitsFor(ExactDaySet(schedule.days.val))]_vars

\* C10 as amended: a token contributes a weekday exactly when, trimmed, it is
\* a key of the table or its first three characters are; with no such token
\* nothing is emitted and the handler goes on.
C10_ExactOrPrefixTokensResolve ==
  [][GeneratesFromDays => EmitsFor(PrefixDaySet(schedule.days.val))]_vars

\* The generator ran on days = ["Funday"] and emitted nothing.
C10_Witness ==
  /\ Generated
  /\ schedule.days = DaysArray(<<"Funday">>)
  /\ TimesParse(schedule)
  /\ classMeetingBlocks = <<>>

\* The weekdays on which the class-meeting blocks fall.
BlockWeekdays(blocks) ==
  {getDay(ParseDate(blocks[i].blockDate)) : i \in 1..Len(blocks)}

\* The fixed table of the claim: accepted token and its weekday number.
DayTable ==
  {<<"Monday", 1>>, <<"Mon", 1>>, <<"M", 1>>,
   <<"Tuesday", 2>>, <<"Tue", 2>>, <<"T", 2>>,
   <<"Wednesday", 3>>, <<"Wed", 3>>, <<"W", 3>>,
   <<"Thursday", 4>>, <<"Thu", 4>>, <<"R", 4>>,
   <<"Friday", 5>>, <<"Fri", 5>>, <<"F", 5>>,
   <<"Saturday", 6>>, <<"Sat", 6>>, <<"S", 6>>,
   <<"Sunday", 0>>, <<"Sun", 0>>}

\* The generator ran on a schedule whose days is the one-token array and
\* whose range, the example's, holds every weekday.
GeneratedFromToken(token) ==
  /\ Generated
  /\ schedule = Schedule(DaysArray(<<token>>), "10:00", "11:00",
                         "2025-01-13", "2025-01-24")

\* C11: each accepted token resolves to the weekday of the fixed table; the
\* single letter S is Saturday, never Sunday, and no single letter is Sunday.
C11_TokenTable ==
  /\ \A entry \in DayTable :
       GeneratedFromToken(entry[1]) =>
         (classMeetingBlocks # <<>> /\ BlockWeekdays(classMeetingBlocks) = {entry[2]})
  /\ \A token \in SingleTokens :
       (Len(token) = 1 /\ GeneratedFromToken(token)) =>
         0 \notin BlockWeekdays(classMeetingBlocks)

\* The generator ran on days = ["S"] and emitted the Saturday of the range.
C11_Witness ==
  /\ GeneratedFromToken("S")
  /\ BlockDates(classMeetingBlocks) = <<"2025-01-18">>

\* The first day of the enumeration according to the claim: the given
\* startDate, else January 15 of the current year.
ClaimedFirstDay ==
  IF schedule.startDate = "" THEN ParseDate(Pad(currentYear, 4) \o "-01-15")
  ELSE ParseDate(schedule.startDate)

\* The last day according to the claim: the given endDate, else May 15 of
\* the current year.
ClaimedLastDay ==
  IF schedule.endDate = "" THEN ParseDate(Pad(currentYear, 4) \o "-05-15")
  ELSE ParseDate(schedule.endDate)

\* C12: an absent startDate stands for January 15 of the current year and an
\* absent endDate for May 15 of the current year, each on its own; a given
\* bound is used as given.
C12_DefaultedRange ==
  (/\ Generated
   /\ ~schedule.isNull
   /\ schedule.days.type = "array"
   /\ TimesParse(schedule)
   /\ ClaimedFirstDay.k = "fin"
   /\ ClaimedLastDay.k = "fin") =>
    Range(BlockDates(classMeetingBlocks)) =
      MatchingDates(ClaimedFirstDay.v, ClaimedLastDay.v,
                    ResolvedDaySet(schedule.days.val))

\* With no dates given in 2025, Monday/Wednesday blocks run from Wednesday
\* January 15 to Wednesday May 14.
C12_Witness ==
  /\ Generated
  /\ schedule.startDate = ""
  /\ schedule.endDate = ""
  /\ currentYear = 2025
  /\ Len(classMeetingBlocks) = 35
  /\ classMeetingBlocks[1].blockDate = "2025-01-15"
  /\ classMeetingBlocks[35].blockDate = "2025-05-14"

\* C13: the class-meeting blocks are strictly ascending by date, so no two
\* of them share a date, whatever tokens of the days list resolve to the same
\* weekday.
C13_StrictlyAscendingDates ==
  Generated =>
    \A i \in 1..Len(classMeetingBlocks) : \A j \in 1..Len(classMeetingBlocks) :
      i < j => JsLt(ParseDate(classMeetingBlocks[i].blockDate),
                    ParseDate(classMeetingBlocks[j].blockDate))

\* Two tokens of one weekday gave one block per Monday of the range.
C13_Witness ==
  /\ Generated
  /\ schedule.days = DaysArray(<<"Monday", "Mon">>)
  /\ BlockDates(classMeetingBlocks) = <<"2025-01-13", "2025-01-20">>

\* C14: every class-meeting block has the schedule's startTime as given and
\* the one clamped duration of the schedule, so all blocks of an invocation
\* agree on both.
C14_SameStartTimeAndDuration ==
  Generated =>
    \A i \in 1..Len(classMeetingBlocks) :
      /\ classMeetingBlocks[i].startTime = schedule.startTime
      /\ classMeetingBlocks[i].durationMinutes = ClampedDifference(schedule)
      /\ \A j \in 1..Len(classMeetingBlocks) :
           /\ classMeetingBlocks[j].startTime = classMeetingBlocks[i].startTime
           /\ classMeetingBlocks[j].durationMinutes =
                classMeetingBlocks[i].durationMinutes

\* Four blocks of the example schedule, all at 10:00 for 60 minutes.
C14_Witness ==
  /\ Generated
  /\ schedule = ExampleSchedule
  /\ Len(classMeetingBlocks) = 4
  /\ \A i \in 1..4 : /\ classMeetingBlocks[i].startTime = "10:00"
                     /\ classMeetingBlocks[i].durationMinutes = Num(60)

\* C15: every class-meeting block is in the merged output with its date,
\* start time and duration unchanged, the request's userId and classId, and a
\* null assignment link; the rows of planned sessions come after them.
C15_ClassMeetingsCopied ==
  Merged =>
    /\ Len(allStudyBlocks) >= Len(classMeetingBlocks)
    /\ \A i \in 1..Len(classMeetingBlocks) :
         /\ allStudyBlocks[i].block_date = classMeetingBlocks[i].blockDate
         /\ allStudyBlocks[i].start_time = classMeetingBlocks[i].startTime
         /\ allStudyBlocks[i].duration_minutes = classMeetingBlocks[i].durationMinutes
         /\ allStudyBlocks[i].user_id = request.userId
         /\ allStudyBlocks[i].class_id = request.classId
         /\ allStudyBlocks[i].assignment_id = null

\* Four class meetings merged together with a planned session that is linked
\* to an assignment.
C15_Witness ==
  /\ Merged
  /\ Len(classMeetingBlocks) = 4
  /\ Len(allStudyBlocks) > 4
  /\ allStudyBlocks[5].assignment_id # null
  /\ allStudyBlocks[1].block_date = "2025-01-13"
  /\ allStudyBlocks[1].assignment_id = null

\* C16: the merged output is the class-meeting blocks in generated order
\* followed by the planned sessions in planner order, nothing re-sorted and
\* nothing left out as a duplicate.
C16_MergedIsConcatenation ==
  (Merged /\ assignmentStudyBlocks.kind = "array") =>
    /\ Len(allStudyBlocks) =
         Len(classMeetingBlocks) + Len(assignmentStudyBlocks.val)
    /\ \A i \in 1..Len(classMeetingBlocks) :
         /\ allStudyBlocks[i].block_date = classMeetingBlocks[i].blockDate
         /\ allStudyBlocks[i].start_time = classMeetingBlocks[i].startTime
    /\ \A j \in 1..Len(assignmentStudyBlocks.val) :
         RowOfSession(allStudyBlocks[Len(classMeetingBlocks) + j],
                      assignmentStudyBlocks.val[j])

\* The planned session's assignmentIndex i satisfies 0 <= i < n.
IndexInBounds(assignmentIndex, n) ==
  assignmentIndex.k = "fin" /\ assignmentIndex.v >= 0 /\ assignmentIndex.v < n

\* C17: a planned session whose assignmentIndex i is within the persisted
\* assignments has a block whose assignment link is the id of the i-th
\* (counted from 0) assignment record stored by this invocation, and of no
\* other record.
C17_LinkIsIdOfIndexedAssignment ==
  (Merged /\ assignmentStudyBlocks.kind = "array") =>
    \A j \in 1..Len(assignmentStudyBlocks.val) :
      LET i == assignmentStudyBlocks.val[j].assignmentIndex
          at == Len(classMeetingBlocks) + j
      IN IndexInBounds(i, Len(syllabus_assignments)) =>
           /\ at <= Len(allStudyBlocks)
           /\ allStudyBlocks[at].assignment_id = syllabus_assignments[i.v + 1].id
           /\ allStudyBlocks[at].assignment_id # null
           /\ \A k \in 1..Len(syllabus_assignments) :
                k # i.v + 1 =>
                  allStudyBlocks[at].assignment_id # syllabus_assignments[k].id

\* A session with assignmentIndex 1 is linked to the second of two records.
C17_Witness ==
  /\ Merged
  /\ Len(syllabus_assignments) = 2
  /\ assignmentStudyBlocks.kind = "array"
  /\ Len(assignmentStudyBlocks.val) = 1
  /\ assignmentStudyBlocks.val[1].assignmentIndex = Num(1)
  /\ allStudyBlocks[Len(classMeetingBlocks) + 1].assignment_id = "uuid-02"

\* C18: a planned session whose date cannot be parsed is left out of the
\* merged output: no block after the class meetings has an unparseable date.
C18_UnparseableDateDropped ==
  (Merged /\ assignmentStudyBlocks.kind = "array") =>
    \A k \in (Len(classMeetingBlocks) + 1)..Len(allStudyBlocks) :
      ParseDate(allStudyBlocks[k].block_date).k # "nan"

\* The planner answered with JSON that is not a sequence.
NonSequencePlannerOutput ==
  planReply.ok /\ planReply.kind \in {"null", "object"}

\* The schedule's days value is not a sequence, in a schedule whose times the
\* generator accepts.
NonSequenceDays ==
  /\ ~schedule.isNull
  /\ schedule.days.type = "string"
  /\ TimesParse(schedule)

\* The failures raised by the generator and the merger themselves.
CoreFailures ==
  {"schedule.days.map is not a function",
   "Cannot read properties of null (reading 'length')"}

\* C19: a planner output or days value that is not a sequence makes the
\* invocation fail, never succeed as if the list were empty, and the
\* generator and merger raise for no other input.
C19_NonSequenceRaises ==
  pc = "done" =>
    /\ response.success => (~NonSequencePlannerOutput /\ ~NonSequenceDays)
    /\ response.error \in CoreFailures =>
         (NonSequencePlannerOutput \/ NonSequenceDays)

\* The planner call failed or its answer is not JSON.
PlannerFailed == ~planReply.ok \/ planReply.kind = "badJson"

\* `rows` are the blocks `blocks`, one row per block in order.
RowsOfBlocks(rows, blocks) ==
  /\ Len(rows) = Len(blocks)
  /\ \A i \in 1..Len(blocks) :
       /\ rows[i].block_date = blocks[i].blockDate
       /\ rows[i].start_time = blocks[i].startTime
       /\ rows[i].duration_minutes = blocks[i].durationMinutes

StepOrder ==
  <<"validate", "download", "parse", "insertTopics", "insertAssignments",
    "generate", "plan", "merge", "insertBlocks", "updateClass", "done">>

Rank(step) == CHOOSE i \in 1..Len(StepOrder) : StepOrder[i] = step

\* C21: within one invocation the AI parsing call, the recurrence generation,
\* the AI planning call, the merge and the insert of the study blocks happen
\* in this order, each at most once: every step moves on to the next step or
\* to the response, none is taken again, and each result is written by its
\* own step only, the study blocks after the planner call.
C21_StepsInOrder ==
  [][/\ pc' # pc
     /\ pc' = "done" \/ Rank(pc') = Rank(pc) + 1
     /\ schedule' # schedule => pc = "parse"
     /\ classMeetingBlocks' # classMeetingBlocks => pc = "generate"
     /\ assignmentStudyBlocks' # assignmentStudyBlocks => pc = "plan"
     /\ allStudyBlocks' # allStudyBlocks => pc = "merge"
     /\ study_blocks' # study_blocks =>
          (pc = "insertBlocks" /\ Rank(pc) > Rank("plan"))
    ]_vars

\* A run that took every step and stored class meetings and a planned session.
C21_Witness ==
  /\ pc = "done"
  /\ response.success
  /\ schedule = ExampleSchedule
  /\ Len(classMeetingBlocks) = 4
  /\ Len(assignmentStudyBlocks.val) = 1
  /\ Len(study_blocks) = 5

\* The string s contains the string t.
Contains(s, t) ==
  \E i \in 1..(Len(s) - Len(t) + 1) : SubSeq(s, i, i + Len(t) - 1) = t

\* The environment variables that are unset and the request fields that are
\* missing.
MissingItems ==
  (EnvNames \ env) \cup {field \in {"syllabusUrl", "classId", "userId"} : req[field] = ""}

\* Nothing has been written to the database.
NothingWritten ==
  /\ syllabus_topics = <<>>
  /\ syllabus_assignments = <<>>
  /\ study_blocks = <<>>
  /\ ai_parsed = {}

\* C23: with an environment variable unset or a request field missing, the
\* first step answers status 500, success false and an error that names a
\* missing item; the invocation never reaches the download, an AI call or a
\* database write.
C23_MissingItemRejectedFirst ==
  /\ [](MissingItems # {} => (pc \in {"validate", "done"} /\ NothingWritten))
  /\ [][(MissingItems # {} /\ pc = "validate") =>
          /\ pc' = "done"
          /\ response'.status = 500
          /\ ~response'.success
          /\ \E item \in MissingItems : Contains(response'.error, item)
       ]_vars

\* The answer to a request without classId, in a complete environment.
C23_Witness ==
  /\ pc = "done"
  /\ env = EnvNames
  /\ req.classId = ""
  /\ req.userId # ""
  /\ response.status = 500
  /\ Contains(response.error, "classId")

\* The syllabus-parsing AI answered, with text that is not JSON.
ParseReplyNotJson == aiReply.ok /\ ~aiReply.valid

\* C24: when the syllabus-parsing AI answers text that is not valid JSON, the
\* parse step answers the error "AI returned invalid JSON format", and the
\* invocation writes nothing: no topic, assignment or study block and no
\* ai_parsed mark.
C24_InvalidJsonWritesNothing ==
  /\ [](ParseReplyNotJson => NothingWritten)
  /\ [][(ParseReplyNotJson /\ pc = "parse") =>
          /\ pc' = "done"
          /\ ~response'.success
          /\ response'.error = "AI returned invalid JSON format"
       ]_vars

\* The answer of such an invocation.
C24_Witness ==
  /\ pc = "done"
  /\ ParseReplyNotJson
  /\ request = CompleteBody
  /\ response.status = 500
  /\ response.error = "AI returned invalid JSON format"

\* C25: the class is marked ai_parsed only by the last step of an invocation
\* whose topics, assignments and study blocks are all stored, and that
\* invocation answers success; a step that answers an error leaves ai_parsed
\* as it was.
C25_MarkedOnlyAfterAllInserts ==
  /\ [](ai_parsed # {} => (pc = "done" /\ response.success))
  /\ [][/\ ai_parsed' # ai_parsed =>
            /\ pc = "updateClass"
            /\ ai_parsed' = ai_parsed \cup {request.classId}
            /\ response'.success
            /\ Len(syllabus_topics) = Len(topics)
            /\ Len(syllabus_assignments) = Len(assignments)
            /\ study_blocks = allStudyBlocks
        /\ response'.status = 500 => ai_parsed' = ai_parsed
       ]_vars

\* A marked class, with its topic, its assignment and its five blocks stored.
C25_Witness ==
  /\ pc = "done"
  /\ ai_parsed = {"c1"}
  /\ Len(syllabus_topics) = 1
  /\ Len(syllabus_assignments) = 1
  /\ Len(study_blocks) = 5

\* The sequence a is the beginning of the sequence b.
IsPrefix(a, b) == Len(a) <= Len(b) /\ SubSeq(b, 1, Len(a)) = a

\* C26: nothing stored is taken back: every table only has rows added, and
\* the step at which the assignments insert or the study-blocks insert fails
\* answers an error while the topic rows, and for the study-blocks insert the
\* assignment rows, that the invocation stored stay in their tables.
C26_NoRollback ==
  [][/\ IsPrefix(syllabus_topics, syllabus_topics')
     /\ IsPrefix(syllabus_assignments, syllabus_assignments')
     /\ IsPrefix(study_blocks, study_blocks')
     /\ response'.error = "Failed to save assignments: insert failed" =>
          /\ response'.status = 500 /\ ~response'.success
          /\ Len(syllabus_topics') = Len(topics)
     /\ response'.error = "Failed to save study blocks: insert failed" =>
          /\ response'.status = 500 /\ ~response'.success
          /\ Len(syllabus_topics') = Len(topics)
          /\ Len(syllabus_assignments') = Len(assignments)
    ]_vars

\* The study-blocks insert failed; one topic and two assignments stay stored.
C26_Witness ==
  /\ pc = "done"
  /\ response.error = "Failed to save study blocks: insert failed"
  /\ Len(syllabus_topics) = 1
  /\ Len(syllabus_assignments) = 2
  /\ study_blocks = <<>>

\* C27: in a success response studyBlocksCount is classMeetingBlocksCount
\* plus assignmentBlocksCount, and it is the number of rows the invocation
\* stored in study_blocks (for a planner output that is a sequence).
C27_CountsAddUp ==
  (pc = "done" /\ response.success /\ assignmentStudyBlocks.kind = "array") =>
    /\ response.assignmentBlocksCount.k = "fin"
    /\ response.studyBlocksCount =
         response.classMeetingBlocksCount + response.assignmentBlocksCount.v
    /\ response.studyBlocksCount = Len(study_blocks)

\* The range of the schedule is empty or not a range: a bound is no date or
\* the start is after the end.
NoRange ==
  LET first == StartDateOf(schedule, currentYear)
      last == EndDateOf(schedule, currentYear)
  IN isNaN(first) \/ isNaN(last) \/ JsGt(first, last)

\* C28: the occurrence loop ends for every schedule; an iteration is made only
\* while the date is not after endDate and moves the date one calendar day on,
\* the loop is left when the date is after endDate, and when startDate is
\* after endDate or a date cannot be parsed no iteration is made and no block
\* is emitted.  What the loop emits is what the generator is said to emit.
C28_LoopTerminates ==
  /\ <>(pc \in {"plan", "done"})
  /\ [][(loopPc = "loop" /\ loopPc' = "loop") =>
          /\ JsLe(currentDate, EndDateOf(schedule, currentYear))
          /\ currentDate'.k = "fin"
          /\ currentDate'.v = currentDate.v + 1
          /\ ~NoRange
       ]_vars
  /\ [][(loopPc = "loop" /\ loopPc' = "after") =>
          (NoRange \/ currentDate.v = EndDateOf(schedule, currentYear).v + 1)
       ]_vars
  /\ []((pc \in {"generate", "plan"} /\ NoRange) => classMeetingBlocks = <<>>)
  /\ [](pc = "plan" =>
          classMeetingBlocks = GenerateClassMeetingBlocks(schedule, currentYear).blocks)

\* The loop has run from January 15 to May 15 of a leap year, over
\* February 29, and the generator is left with the 36 blocks of the range.
C28_Witness ==
  /\ pc = "plan"
  /\ loopPc = "after"
  /\ currentYear = 2024
  /\ currentDate = MakeDate(2024, 4, 16)
  /\ Len(classMeetingBlocks) = 36
  /\ classMeetingBlocks[36].blockDate = "2024-05-15"

\* The two invocations, the running one and the waiting one.
Invocations == {CurrentLocals, suspended}

\* The stored study blocks that carry the user and the class of invocation L.
Owned(L) ==
  SelectSeq(study_blocks,
            LAMBDA r : r.user_id = L.req.userId /\ r.class_id = L.req.classId)

\* Invocation L is past its study-block insert.
HasInserted(L) == L.pc = "updateClass" \/ (L.pc = "done" /\ L.response.success)

\* What the planner step of an invocation yields from the planner's reply.
PlannedOf(reply) ==
  IF reply.ok /\ reply.kind # "badJson"
  THEN [kind |-> reply.kind, val |-> reply.val]
  ELSE JsonArray(<<>>)

\* The rows invocation L stores when it runs alone with the same request,
\* the same AI replies and the same storage outcomes.
PersistedAlone(L) ==
  IF HasInserted(L)
  THEN MergeStudyBlocks(GenerateClassMeetingBlocks(L.aiReply.schedule, currentYear).blocks,
                        PlannedOf(L.planReply), L.insertedAssignments,
                        L.req.userId, L.req.classId)
  ELSE <<>>

\* The assignment rows invocation L got back are rows of its own class for
\* the assignments of its own parse reply.
OwnAssignments(L) ==
  /\ Len(L.insertedAssignments) \in {0, Len(L.aiReply.assignments)}
  /\ \A i \in 1..Len(L.insertedAssignments) :
       /\ L.insertedAssignments[i].class_id = L.req.classId
       /\ L.insertedAssignments[i].title = L.aiReply.assignments[i].title
       /\ \E j \in 1..Len(syllabus_assignments) :
            syllabus_assignments[j] = L.insertedAssignments[i]

\* C22: when two invocations for different (userId, classId) pairs
\* interleave at their awaits, every stored study block carries the user and
\* the class of one of the two invocations, and the blocks stored with an
\* invocation's user and class are exactly, in order, the blocks that
\* invocation stores when it runs alone.
C22_InterleavedInvocationsIndependent ==
  (suspended.pc # "absent" /\ req # suspended.req) =>
    /\ \A L \in Invocations : Owned(L) = PersistedAlone(L) /\ OwnAssignments(L)
    /\ \A i \in 1..Len(study_blocks) :
         \E L \in Invocations :
           /\ study_blocks[i].user_id = L.req.userId
           /\ study_blocks[i].class_id = L.req.classId

\* Both invocations answered success after interleaving: the first stored
\* its assignments first, the second stored its study blocks first.
C22_Witness ==
  /\ pc = "done"
  /\ suspended.pc = "done"
  /\ response.success
  /\ suspended.response.success
  /\ req # suspended.req
  /\ Len(syllabus_assignments) > 1
  /\ syllabus_assignments[1].class_id = "c1"
  /\ Len(Owned(CurrentLocals)) > 0
  /\ Len(Owned(suspended)) > 0
  /\ study_blocks[1].class_id = "c2"
  /\ study_blocks[Len(study_blocks)].class_id = "c1"

\* Two rows are the same block: the same user, class, date, time and length.
\* The assignment they link is a row of its own invocation.
SameBlock(r1, r2) == [r1 EXCEPT !.assignment_id = ""] = [r2 EXCEPT !.assignment_id = ""]

\* How many rows of `rows` are the block `r`.
Copies(rows, r) == Cardinality({j \in 1..Len(rows) : SameBlock(rows[j], r)})

\* Both invocations ran for the same class with the same AI replies and
\* answered success.
RanTwice ==
  /\ pc = "done"
  /\ suspended.pc = "done"
  /\ response.success
  /\ suspended.response.success
  /\ req = suspended.req
  /\ aiReply = suspended.aiReply
  /\ planReply = suspended.planReply

\* C29: no step removes or changes a stored study block, rows are only
\* added at the end; after two successful invocations for the same class
\* with the same AI replies every generated block is stored twice.
C29_InsertOnlyStoresTwice ==
  /\ [][IsPrefix(study_blocks, study_blocks')]_vars
  /\ [](RanTwice =>
          /\ Len(study_blocks) = 2 * Len(allStudyBlocks)
          /\ \A i \in 1..Len(allStudyBlocks) :
               Copies(study_blocks, allStudyBlocks[i]) =
                 2 * Copies(allStudyBlocks, allStudyBlocks[i]))

\* The example schedule and planner reply, run twice for class c1: four
\* class meetings and one planned session, each stored twice.
C29_Witness ==
  /\ RanTwice
  /\ Len(allStudyBlocks) = 5
  /\ Len(study_blocks) = 10
  /\ study_blocks[6] = study_blocks[1]

\* The last stored study session.
LastSession == study_sessions[Len(study_sessions)]

\* C30: in a call of handleShare the feed-post insert is made if and only
\* if the study-session insert succeeded and the visibility the call was
\* made with is not 'only_me', and it stores one post for that session
\* unless the table itself rejects it; with 'only_me' no feed post is
\* stored; a call stores at most one study session and at most one feed
\* post.
C30_FeedPostIffSharedSession ==
  /\ [][sharePc = "insertSession" =>
          (sharePc' = "insertPost" <=>
             (study_sessions' # study_sessions /\ shareVisibility # "only_me"))]_vars
  /\ [][(sharePc = "insertPost" /\ sharePc' # "insertPost") =>
          \/ feed_posts' = Append(feed_posts, [user_id |-> user,
                                               session_id |-> LastSession.id,
                                               photo_url |-> IF photo = "" THEN DefaultPhoto ELSE photo,
                                               minutes_studied |-> duration])
          \/ /\ feed_posts' = feed_posts
             /\ toasts' = Append(toasts, [title |-> "Failed to save session",
                                          description |-> "insert failed"])]_vars
  /\ [][feed_posts' # feed_posts =>
          /\ sharePc = "insertPost"
          /\ shareVisibility # "only_me"
          /\ sharePc' = "idle"]_vars
  /\ [][study_sessions' # study_sessions =>
          /\ sharePc = "insertSession"
          /\ sharePc' # "insertSession"
          /\ study_sessions' = Append(study_sessions, LastSession')]_vars
  /\ [][sharePc = "idle" /\ sharePc' = "insertSession" => calls' = calls + 1]_vars
  /\ [](Len(study_sessions) <= calls)
  /\ [](\A i \in 1..Len(feed_posts) :
          /\ \E j \in 1..Len(study_sessions) : study_sessions[j].id = feed_posts[i].session_id
          /\ \A k \in 1..Len(feed_posts) :
               feed_posts[k].session_id = feed_posts[i].session_id => k = i)

\* The first call stored its session and its post was rejected; the second
\* call was made with 'everyone', the user chose 'only_me' while it was
\* running, and it stored its session and one post.
C30_Witness ==
  /\ calls = 2
  /\ sharePc = "idle"
  /\ location = "/dashboard"
  /\ Len(study_sessions) = 2
  /\ Len(feed_posts) = 1
  /\ feed_posts[1].session_id = study_sessions[2].id
  /\ shareVisibility = "everyone"
  /\ visibility = "only_me"
  /\ Len(toasts) = 2
  /\ toasts[2].description = "Shared with your study buddies"

====
